---------------------------- MODULE Spec2Model ----------------------------
(***************************************************************************)
(* A model of the WhatsApp newsletter sender:                              *)
(*   execution/send_messages.py    the orchestrator run_send_loop and the  *)
(*                                 SessionState it shares with the         *)
(*                                 dashboard,                              *)
(*   execution/whatsapp_sender.py  the delivery driver and its selector    *)
(*                                 resolver,                               *)
(*   execution/google_sheets.py    the contact source,                     *)
(*   execution/dashboard.py        the Start / Stop / Pause / Resume       *)
(*                                 buttons and the script runs that draw   *)
(*                                 and handle them.                        *)
(*                                                                         *)
(* Several specifications share the module.  Spec is one run of the       *)
(* orchestrator with the dashboard's script, and FairSpec is Spec with     *)
(* the worker thread scheduled fairly; Calls applies one function of       *)
(* google_sheets.py or whatsapp_sender.py to an argument; Connector is one *)
(* call of ensure_chrome_ready; Runs is the Start button and the lifetimes *)
(* of the workers it spawns; Reruns is calls of run_send_loop, one after   *)
(* another or overlapping, on one sheet.                                   *)
(*                                                                         *)
(* The worker thread is a process with a program counter pc; every action  *)
(* of the worker holds at most one read of a flag the dashboard writes,    *)
(* and the writes to the sheet, to the counters and results, to the flags  *)
(* and to the log file are actions of their own, so that the dashboard     *)
(* thread can run between any two of them as it can in the Python code.    *)
(* The dashboard is a process too: a button is enabled or drawn by the     *)
(* script run that read the flag, and its handler writes in a later script *)
(* run, with the worker running in between.                                *)
(* The text of the log (state.log_messages) is not modelled.  Variables    *)
(* whose comment says "history" are not fields of the program: they record *)
(* what the program did, for the properties to read.                       *)
(***************************************************************************)
EXTENDS Integers, Sequences, FiniteSets, TLC

(***************************************************************************)
(* Bounds of the model.                                                    *)
(***************************************************************************)
MaxRows == 2        \* data rows of the sheet
MaxCount == 2       \* the largest count a run is started with
MaxDelay == 12      \* the largest base delay a run is started with
MaxLen == 3         \* the longest string a function is applied to
MaxLaunchTimeout == 2   \* the largest launch_timeout tried besides the default
MaxRuns == 2        \* the workers the Start button spawns in one behaviour

(***************************************************************************)
(* Program constants.                                                      *)
(***************************************************************************)
DEFAULT_DAILY_MESSAGE_LIMIT == 45   \* os.getenv("DAILY_MESSAGE_LIMIT", "45")
MIN_DELAY == 20                     \* max(20, delay + jitter)
JITTER_LOW == -5                    \* random.uniform(-5, 10)
JITTER_HIGH == 10
SEND_TIMEOUT == 30                  \* send_whatsapp_message(timeout=30)
LAUNCH_TIMEOUT == 15                \* ensure_chrome_ready(launch_timeout=15)

Min(a, b) == IF a <= b THEN a ELSE b
Max(a, b) == IF a >= b THEN a ELSE b
SetMin(S) == CHOOSE x \in S : \A y \in S : x <= y

(***************************************************************************)
(* google_sheets.py: strings are sequences of one-character strings.  An   *)
(* ASCII character stands for itself; a character outside ASCII is named   *)
(* by its code point ("U+00B2" is SUPERSCRIPT TWO, "U+0663" is             *)
(* ARABIC-INDIC DIGIT THREE).                                              *)
(***************************************************************************)
DigitChars == {"0", "1", "2", "3", "4", "5", "6", "7", "8", "9"}

\* The characters outside "0".."9" for which str.isdigit() is True (Unicode
\* categories Nd and No with a digit value), each named by its code point.
UnicodeDigitChars ==
    {"U+00B2", "U+00B3", "U+00B9", "U+0660", "U+0661", "U+0662", "U+0663",
     "U+0664", "U+0665", "U+0666", "U+0667", "U+0668", "U+0669", "U+06F0",
     "U+06F1", "U+06F2", "U+06F3", "U+06F4", "U+06F5", "U+06F6", "U+06F7",
     "U+06F8", "U+06F9", "U+07C0", "U+07C1", "U+07C2", "U+07C3", "U+07C4",
     "U+07C5", "U+07C6", "U+07C7", "U+07C8", "U+07C9", "U+0966", "U+0967",
     "U+0968", "U+0969", "U+096A", "U+096B", "U+096C", "U+096D", "U+096E",
     "U+096F", "U+09E6", "U+09E7", "U+09E8", "U+09E9", "U+09EA", "U+09EB",
     "U+09EC", "U+09ED", "U+09EE", "U+09EF", "U+0A66", "U+0A67", "U+0A68",
     "U+0A69", "U+0A6A", "U+0A6B", "U+0A6C", "U+0A6D", "U+0A6E", "U+0A6F",
     "U+0AE6", "U+0AE7", "U+0AE8", "U+0AE9", "U+0AEA", "U+0AEB", "U+0AEC",
     "U+0AED", "U+0AEE", "U+0AEF", "U+0B66", "U+0B67", "U+0B68", "U+0B69",
     "U+0B6A", "U+0B6B", "U+0B6C", "U+0B6D", "U+0B6E", "U+0B6F", "U+0BE6",
     "U+0BE7", "U+0BE8", "U+0BE9", "U+0BEA", "U+0BEB", "U+0BEC", "U+0BED",
     "U+0BEE", "U+0BEF", "U+0C66", "U+0C67", "U+0C68", "U+0C69", "U+0C6A",
     "U+0C6B", "U+0C6C", "U+0C6D", "U+0C6E", "U+0C6F", "U+0CE6", "U+0CE7",
     "U+0CE8", "U+0CE9", "U+0CEA", "U+0CEB", "U+0CEC", "U+0CED", "U+0CEE",
     "U+0CEF", "U+0D66", "U+0D67", "U+0D68", "U+0D69", "U+0D6A", "U+0D6B",
     "U+0D6C", "U+0D6D", "U+0D6E", "U+0D6F", "U+0DE6", "U+0DE7", "U+0DE8",
     "U+0DE9", "U+0DEA", "U+0DEB", "U+0DEC", "U+0DED", "U+0DEE", "U+0DEF",
     "U+0E50", "U+0E51", "U+0E52", "U+0E53", "U+0E54", "U+0E55", "U+0E56",
     "U+0E57", "U+0E58", "U+0E59", "U+0ED0", "U+0ED1", "U+0ED2", "U+0ED3",
     "U+0ED4", "U+0ED5", "U+0ED6", "U+0ED7", "U+0ED8", "U+0ED9", "U+0F20",
     "U+0F21", "U+0F22", "U+0F23", "U+0F24", "U+0F25", "U+0F26", "U+0F27",
     "U+0F28", "U+0F29", "U+1040", "U+1041", "U+1042", "U+1043", "U+1044",
     "U+1045", "U+1046", "U+1047", "U+1048", "U+1049", "U+1090", "U+1091",
     "U+1092", "U+1093", "U+1094", "U+1095", "U+1096", "U+1097", "U+1098",
     "U+1099", "U+1369", "U+136A", "U+136B", "U+136C", "U+136D", "U+136E",
     "U+136F", "U+1370", "U+1371", "U+17E0", "U+17E1", "U+17E2", "U+17E3",
     "U+17E4", "U+17E5", "U+17E6", "U+17E7", "U+17E8", "U+17E9", "U+1810",
     "U+1811", "U+1812", "U+1813", "U+1814", "U+1815", "U+1816", "U+1817",
     "U+1818", "U+1819", "U+1946", "U+1947", "U+1948", "U+1949", "U+194A",
     "U+194B", "U+194C", "U+194D", "U+194E", "U+194F", "U+19D0", "U+19D1",
     "U+19D2", "U+19D3", "U+19D4", "U+19D5", "U+19D6", "U+19D7", "U+19D8",
     "U+19D9", "U+19DA", "U+1A80", "U+1A81", "U+1A82", "U+1A83", "U+1A84",
     "U+1A85", "U+1A86", "U+1A87", "U+1A88", "U+1A89", "U+1A90", "U+1A91",
     "U+1A92", "U+1A93", "U+1A94", "U+1A95", "U+1A96", "U+1A97", "U+1A98",
     "U+1A99", "U+1B50", "U+1B51", "U+1B52", "U+1B53", "U+1B54", "U+1B55",
     "U+1B56", "U+1B57", "U+1B58", "U+1B59", "U+1BB0", "U+1BB1", "U+1BB2",
     "U+1BB3", "U+1BB4", "U+1BB5", "U+1BB6", "U+1BB7", "U+1BB8", "U+1BB9",
     "U+1C40", "U+1C41", "U+1C42", "U+1C43", "U+1C44", "U+1C45", "U+1C46",
     "U+1C47", "U+1C48", "U+1C49", "U+1C50", "U+1C51", "U+1C52", "U+1C53",
     "U+1C54", "U+1C55", "U+1C56", "U+1C57", "U+1C58", "U+1C59", "U+2070",
     "U+2074", "U+2075", "U+2076", "U+2077", "U+2078", "U+2079", "U+2080",
     "U+2081", "U+2082", "U+2083", "U+2084", "U+2085", "U+2086", "U+2087",
     "U+2088", "U+2089", "U+2460", "U+2461", "U+2462", "U+2463", "U+2464",
     "U+2465", "U+2466", "U+2467", "U+2468", "U+2474", "U+2475", "U+2476",
     "U+2477", "U+2478", "U+2479", "U+247A", "U+247B", "U+247C", "U+2488",
     "U+2489", "U+248A", "U+248B", "U+248C", "U+248D", "U+248E", "U+248F",
     "U+2490", "U+24EA", "U+24F5", "U+24F6", "U+24F7", "U+24F8", "U+24F9",
     "U+24FA", "U+24FB", "U+24FC", "U+24FD", "U+24FF", "U+2776", "U+2777",
     "U+2778", "U+2779", "U+277A", "U+277B", "U+277C", "U+277D", "U+277E",
     "U+2780", "U+2781", "U+2782", "U+2783", "U+2784", "U+2785", "U+2786",
     "U+2787", "U+2788", "U+278A", "U+278B", "U+278C", "U+278D", "U+278E",
     "U+278F", "U+2790", "U+2791", "U+2792", "U+A620", "U+A621", "U+A622",
     "U+A623", "U+A624", "U+A625", "U+A626", "U+A627", "U+A628", "U+A629",
     "U+A8D0", "U+A8D1", "U+A8D2", "U+A8D3", "U+A8D4", "U+A8D5", "U+A8D6",
     "U+A8D7", "U+A8D8", "U+A8D9", "U+A900", "U+A901", "U+A902", "U+A903",
     "U+A904", "U+A905", "U+A906", "U+A907", "U+A908", "U+A909", "U+A9D0",
     "U+A9D1", "U+A9D2", "U+A9D3", "U+A9D4", "U+A9D5", "U+A9D6", "U+A9D7",
     "U+A9D8", "U+A9D9", "U+A9F0", "U+A9F1", "U+A9F2", "U+A9F3", "U+A9F4",
     "U+A9F5", "U+A9F6", "U+A9F7", "U+A9F8", "U+A9F9", "U+AA50", "U+AA51",
     "U+AA52", "U+AA53", "U+AA54", "U+AA55", "U+AA56", "U+AA57", "U+AA58",
     "U+AA59", "U+ABF0", "U+ABF1", "U+ABF2", "U+ABF3", "U+ABF4", "U+ABF5",
     "U+ABF6", "U+ABF7", "U+ABF8", "U+ABF9", "U+FF10", "U+FF11", "U+FF12",
     "U+FF13", "U+FF14", "U+FF15", "U+FF16", "U+FF17", "U+FF18", "U+FF19",
     "U+104A0", "U+104A1", "U+104A2", "U+104A3", "U+104A4", "U+104A5",
     "U+104A6", "U+104A7", "U+104A8", "U+104A9", "U+10A40", "U+10A41",
     "U+10A42", "U+10A43", "U+10D30", "U+10D31", "U+10D32", "U+10D33",
     "U+10D34", "U+10D35", "U+10D36", "U+10D37", "U+10D38", "U+10D39",
     "U+10E60", "U+10E61", "U+10E62", "U+10E63", "U+10E64", "U+10E65",
     "U+10E66", "U+10E67", "U+10E68", "U+11052", "U+11053", "U+11054",
     "U+11055", "U+11056", "U+11057", "U+11058", "U+11059", "U+1105A",
     "U+11066", "U+11067", "U+11068", "U+11069", "U+1106A", "U+1106B",
     "U+1106C", "U+1106D", "U+1106E", "U+1106F", "U+110F0", "U+110F1",
     "U+110F2", "U+110F3", "U+110F4", "U+110F5", "U+110F6", "U+110F7",
     "U+110F8", "U+110F9", "U+11136", "U+11137", "U+11138", "U+11139",
     "U+1113A", "U+1113B", "U+1113C", "U+1113D", "U+1113E", "U+1113F",
     "U+111D0", "U+111D1", "U+111D2", "U+111D3", "U+111D4", "U+111D5",
     "U+111D6", "U+111D7", "U+111D8", "U+111D9", "U+112F0", "U+112F1",
     "U+112F2", "U+112F3", "U+112F4", "U+112F5", "U+112F6", "U+112F7",
     "U+112F8", "U+112F9", "U+11450", "U+11451", "U+11452", "U+11453",
     "U+11454", "U+11455", "U+11456", "U+11457", "U+11458", "U+11459",
     "U+114D0", "U+114D1", "U+114D2", "U+114D3", "U+114D4", "U+114D5",
     "U+114D6", "U+114D7", "U+114D8", "U+114D9", "U+11650", "U+11651",
     "U+11652", "U+11653", "U+11654", "U+11655", "U+11656", "U+11657",
     "U+11658", "U+11659", "U+116C0", "U+116C1", "U+116C2", "U+116C3",
     "U+116C4", "U+116C5", "U+116C6", "U+116C7", "U+116C8", "U+116C9",
     "U+11730", "U+11731", "U+11732", "U+11733", "U+11734", "U+11735",
     "U+11736", "U+11737", "U+11738", "U+11739", "U+118E0", "U+118E1",
     "U+118E2", "U+118E3", "U+118E4", "U+118E5", "U+118E6", "U+118E7",
     "U+118E8", "U+118E9", "U+11950", "U+11951", "U+11952", "U+11953",
     "U+11954", "U+11955", "U+11956", "U+11957", "U+11958", "U+11959",
     "U+11C50", "U+11C51", "U+11C52", "U+11C53", "U+11C54", "U+11C55",
     "U+11C56", "U+11C57", "U+11C58", "U+11C59", "U+11D50", "U+11D51",
     "U+11D52", "U+11D53", "U+11D54", "U+11D55", "U+11D56", "U+11D57",
     "U+11D58", "U+11D59", "U+11DA0", "U+11DA1", "U+11DA2", "U+11DA3",
     "U+11DA4", "U+11DA5", "U+11DA6", "U+11DA7", "U+11DA8", "U+11DA9",
     "U+16A60", "U+16A61", "U+16A62", "U+16A63", "U+16A64", "U+16A65",
     "U+16A66", "U+16A67", "U+16A68", "U+16A69", "U+16AC0", "U+16AC1",
     "U+16AC2", "U+16AC3", "U+16AC4", "U+16AC5", "U+16AC6", "U+16AC7",
     "U+16AC8", "U+16AC9", "U+16B50", "U+16B51", "U+16B52", "U+16B53",
     "U+16B54", "U+16B55", "U+16B56", "U+16B57", "U+16B58", "U+16B59",
     "U+1D7CE", "U+1D7CF", "U+1D7D0", "U+1D7D1", "U+1D7D2", "U+1D7D3",
     "U+1D7D4", "U+1D7D5", "U+1D7D6", "U+1D7D7", "U+1D7D8", "U+1D7D9",
     "U+1D7DA", "U+1D7DB", "U+1D7DC", "U+1D7DD", "U+1D7DE", "U+1D7DF",
     "U+1D7E0", "U+1D7E1", "U+1D7E2", "U+1D7E3", "U+1D7E4", "U+1D7E5",
     "U+1D7E6", "U+1D7E7", "U+1D7E8", "U+1D7E9", "U+1D7EA", "U+1D7EB",
     "U+1D7EC", "U+1D7ED", "U+1D7EE", "U+1D7EF", "U+1D7F0", "U+1D7F1",
     "U+1D7F2", "U+1D7F3", "U+1D7F4", "U+1D7F5", "U+1D7F6", "U+1D7F7",
     "U+1D7F8", "U+1D7F9", "U+1D7FA", "U+1D7FB", "U+1D7FC", "U+1D7FD",
     "U+1D7FE", "U+1D7FF", "U+1E140", "U+1E141", "U+1E142", "U+1E143",
     "U+1E144", "U+1E145", "U+1E146", "U+1E147", "U+1E148", "U+1E149",
     "U+1E2F0", "U+1E2F1", "U+1E2F2", "U+1E2F3", "U+1E2F4", "U+1E2F5",
     "U+1E2F6", "U+1E2F7", "U+1E2F8", "U+1E2F9", "U+1E950", "U+1E951",
     "U+1E952", "U+1E953", "U+1E954", "U+1E955", "U+1E956", "U+1E957",
     "U+1E958", "U+1E959", "U+1F100", "U+1F101", "U+1F102", "U+1F103",
     "U+1F104", "U+1F105", "U+1F106", "U+1F107", "U+1F108", "U+1F109",
     "U+1F10A", "U+1FBF0", "U+1FBF1", "U+1FBF2", "U+1FBF3", "U+1FBF4",
     "U+1FBF5", "U+1FBF6", "U+1FBF7", "U+1FBF8", "U+1FBF9"}

\* The whitespace str.strip() removes: the characters for which
\* str.isspace() is True; those without an escape are named by code point.
SpaceChars ==
    {"\t", "\n", "U+000B", "\f", "\r", "U+001C", "U+001D", "U+001E",
     "U+001F", " ", "U+0085", "U+00A0", "U+1680", "U+2000", "U+2001",
     "U+2002", "U+2003", "U+2004", "U+2005", "U+2006", "U+2007", "U+2008",
     "U+2009", "U+200A", "U+2028", "U+2029", "U+202F", "U+205F", "U+3000"}

RECURSIVE LStrip(_)
LStrip(s) ==
    IF s # <<>> /\ Head(s) \in SpaceChars THEN LStrip(Tail(s)) ELSE s

RECURSIVE RStrip(_)
RStrip(s) ==
    IF s # <<>> /\ s[Len(s)] \in SpaceChars
    THEN RStrip(SubSeq(s, 1, Len(s) - 1))
    ELSE s

\* str.strip()
Strip(s) == RStrip(LStrip(s))

\* c.isdigit()
IsDigit(c) == c \in DigitChars \cup UnicodeDigitChars

\* normalize_phone: "".join(c for c in phone_raw if c.isdigit())
normalize_phone(phone_raw) ==
    IF phone_raw = <<>> THEN <<>> ELSE SelectSeq(phone_raw, IsDigit)

\* "," in sort_name
HasComma(s) == \E k \in DOMAIN s : s[k] = ","

\* sort_name.split(",", 1)[1]: what follows the first comma.
RECURSIVE AfterFirstComma(_)
AfterFirstComma(s) ==
    IF Head(s) = "," THEN Tail(s) ELSE AfterFirstComma(Tail(s))

\* The fallback first name.
There == <<"t", "h", "e", "r", "e">>

\* A first-name extraction without the fallback for an empty first name.
extract_first_name_unguarded(sort_name) ==
    IF sort_name = <<>> \/ Strip(sort_name) = <<>> THEN There
    ELSE IF HasComma(sort_name) THEN Strip(AfterFirstComma(sort_name))
    ELSE Strip(sort_name)

\* extract_first_name
extract_first_name(sort_name) ==
    IF sort_name = <<>> \/ Strip(sort_name) = <<>> THEN There
    ELSE IF HasComma(sort_name)
    THEN LET first == Strip(AfterFirstComma(sort_name))
         IN IF first # <<>> THEN first ELSE There
    ELSE Strip(sort_name)

\* The cell values the model's sheets are built from.
PhoneSamples == {<<"+", "1", " ", "2">>, <<" ">>, <<"+", "-">>}
NameSample == <<"L", ",", " ", "D">>

\* One data row: column A (status), column C (sort name), column D (phone);
\* a cell missing from a short row is the empty string it is padded with.
RowSamples ==
    [status : {<<>>}, sort_name : {NameSample}, phone : PhoneSamples]
    \cup [status : {<<"1">>}, sort_name : {NameSample},
          phone : {<<"+", "1", " ", "2">>}]

\* The sheets a run can find: 0..MaxRows data rows, each pending (with a
\* phone that has digits, is blank, or has no digit) or already sent to.
Sheets == UNION {[1..n -> RowSamples] : n \in 0..MaxRows}

\* Contact(row_number, sort_name, first_name, phone_raw, phone_clean)
Contact(idx, sort_name, first_name, phone_raw, phone_clean) ==
    [row_number |-> idx, sort_name |-> sort_name, first_name |-> first_name,
     phone_raw |-> phone_raw, phone_clean |-> phone_clean]

\* A fetch that takes a row to be pending whatever its status cell holds.
RowIsPendingAlways(status) == TRUE

\* Lines 126-128: status = row[0].strip(); a row whose status is not ""
\* is skipped.
RowIsPending(status) == status = <<>>

\* get_pending_contacts: the loop over the data rows; k is the position in
\* all_rows[1:], so the sheet row is k + 1 (enumerate(..., start=2)).
RECURSIVE PendingFrom(_, _, _, _)
PendingFrom(rows, k, limit, acc) ==
    IF k > Len(rows) \/ Len(acc) >= limit THEN acc
    ELSE LET status == Strip(rows[k].status)
             sort_name == Strip(rows[k].sort_name)
             phone_raw == Strip(rows[k].phone)
             first_name == extract_first_name(sort_name)
             phone_clean == normalize_phone(phone_raw)
         IN IF ~RowIsPending(status) THEN PendingFrom(rows, k + 1, limit, acc)
            ELSE IF phone_raw = <<>> THEN PendingFrom(rows, k + 1, limit, acc)
            ELSE IF phone_clean = <<>> THEN PendingFrom(rows, k + 1, limit, acc)
            ELSE PendingFrom(rows, k + 1, limit,
                             Append(acc, Contact(k + 1, sort_name, first_name,
                                                 phone_raw, phone_clean)))

get_pending_contacts(rows, limit) == PendingFrom(rows, 1, limit, <<>>)

\* A write-back that leaves the status cell empty for a failure.
StatusValueEmptyOnFailure(success) == IF success THEN <<"1">> ELSE <<>>

\* write_status: column A of row row_number becomes 1 or 0.
StatusValue(success) == IF success THEN <<"1">> ELSE <<"0">>

write_status(rows, row_number, success) ==
    [rows EXCEPT ![row_number - 1].status = StatusValue(success)]


(***************************************************************************)
(* whatsapp_sender.py: the selector registry, the resolver and the         *)
(* delivery driver.  The page is an input: a DOM scenario says, for the    *)
(* time each step looks at it, what the page holds.                        *)
(***************************************************************************)

\* SELECTORS: the number of locator alternatives registered for each target.
SELECTORS ==
    [message_input |-> 3, attach_button |-> 5, image_input |-> 3,
     caption_input |-> 4, send_button |-> 4, invalid_phone_popup |-> 2,
     popup_ok_button |-> 2, continue_to_chat |-> 2, photos_and_videos |-> 3]

\* for _ in range(timeout * 2): the polls of step 2.
ChatPolls(timeout) == timeout * 2

\* What a resolver call ends in.  Found: the element of locator index, after
\* the locators tried (in the order tried).  NotFound: the TimeoutException
\* raised after the loop; its message names selector_key and holds
\* last_exception, the wait error of the locator tried last (0 for None).
Found(i, tried, waited) ==
    [found |-> TRUE, index |-> i, tried |-> tried, waited |-> waited,
     error |-> "none", target |-> "none", last_exception |-> 0]
NotFound(selector_key, tried, last_exception, waited) ==
    [found |-> FALSE, index |-> 0, tried |-> tried, waited |-> waited,
     error |-> "TimeoutException", target |-> selector_key,
     last_exception |-> last_exception]

\* A resolver without fallbacks: the first locator or nothing.
TryFirstLocatorOnly(hits, selector_key, i, timeout, tried, waited) ==
    IF 1 \in hits /\ SELECTORS[selector_key] >= 1
    THEN Found(1, <<1>>, waited)
    ELSE NotFound(selector_key, <<1>>, 1, waited + timeout)

\* The loop of find_element_with_fallbacks / find_clickable_with_fallbacks:
\* locator i is waited for up to timeout seconds; hits are the locators the
\* predicate (present, or clickable) is satisfied for.  A wait that times
\* out is remembered as last_exception (the last entry of tried).
RECURSIVE TryLocators(_, _, _, _, _, _)
TryLocators(hits, selector_key, i, timeout, tried, waited) ==
    IF i > SELECTORS[selector_key]
    THEN NotFound(selector_key, tried,
                  IF tried = <<>> THEN 0 ELSE tried[Len(tried)], waited)
    ELSE IF i \in hits THEN Found(i, Append(tried, i), waited)
    ELSE TryLocators(hits, selector_key, i + 1, timeout, Append(tried, i),
                     waited + timeout)

find_element_with_fallbacks(dom, selector_key, timeout) ==
    TryLocators(dom.present[selector_key], selector_key, 1, timeout, <<>>, 0)

find_clickable_with_fallbacks(dom, selector_key, timeout) ==
    TryLocators(dom.clickable[selector_key], selector_key, 1, timeout, <<>>, 0)

\* _dismiss_popup (lines 349-358): the OK button is resolved and clicked;
\* "except TimeoutException" covers the resolver and the click alike, so the
\* Escape key is pressed when no OK button is clickable and also when the
\* click raises TimeoutException.  Any other exception of the click, and any
\* exception of the key press, leaves the function.  dom.ok_click and
\* dom.escape say what the click and the key press do on the page.
dismiss_popup(dom) ==
    LET ok_btn == find_clickable_with_fallbacks(dom, "popup_ok_button", 5)
    IN CASE ok_btn.found /\ dom.ok_click = "ok" ->
               [steps |-> <<"popup_ok_click">>, raised |-> FALSE]
         [] ok_btn.found /\ dom.ok_click = "TimeoutException" ->
               [steps |-> <<"popup_ok_click", "popup_escape">>,
                raised |-> dom.escape # "ok"]
         [] ok_btn.found ->
               [steps |-> <<"popup_ok_click">>, raised |-> TRUE]
         [] OTHER ->
               [steps |-> <<"popup_escape">>, raised |-> dom.escape # "ok"]

\* One result of send_whatsapp_message: what it returned or raised, and the
\* steps it executed, in order.
Returned(steps) == [outcome |-> "ok", at |-> "none", steps |-> steps]
Raised(exc, at, steps) == [outcome |-> exc, at |-> at, steps |-> steps]

PopupVisible(dom, k) == dom.popup_at # 0 /\ k >= dom.popup_at

\* A poll of step 2 that takes the chat for loaded without finding the
\* message input.
ChatAssumedVisible(dom, k) == TRUE

\* Lines 263-270: a locator of the message input finds an element.
ChatVisible(dom, k) == dom.chat_at # 0 /\ k >= dom.chat_at

\* Lines 238-249 of poll k: the invalid-number popup is on the page and its
\* dismissal returns, so the poll raises ContactNotFoundError.  A dismissal
\* that raises is swallowed by "except Exception: pass" and the poll goes on.
PollFindsPopup(dom, k) == PopupVisible(dom, k) /\ ~dismiss_popup(dom).raised

\* Lines 252-260 of poll k: a locator of the continue-to-chat prompt finds
\* an element.  The prompt is on the page from poll dom.prompt_at on (0:
\* never); a click that returns (dom.prompt_click = "ok") removes it, and it
\* stays on the page when the click raises.
PromptVisible(dom, k) ==
    /\ dom.prompt_at # 0
    /\ IF dom.prompt_click = "ok" THEN k = dom.prompt_at
       ELSE k >= dom.prompt_at

\* The calls poll k makes, in order: the dismissal of the popup if it is on
\* the page (lines 238-249); the click on the first element of the
\* continue-to-chat prompt if a locator finds one (lines 252-260: one click
\* in every poll that sees the prompt, and a click that raises is swallowed
\* by "except Exception: pass"); and the message input once a locator finds
\* it (lines 263-270).
PollCalls(dom, k) ==
    (IF PopupVisible(dom, k) THEN dismiss_popup(dom).steps ELSE <<>>)
    \o (IF PollFindsPopup(dom, k) \/ ~PromptVisible(dom, k) THEN <<>>
        ELSE <<"continue_click">>)
    \o (IF PollFindsPopup(dom, k) \/ ~ChatVisible(dom, k) THEN <<>>
        ELSE <<"chat_loaded">>)

\* The calls of the polls lo..hi, poll by poll (the range is halved so that
\* the evaluation stays shallow).
RECURSIVE CallsOfPolls(_, _, _)
CallsOfPolls(dom, lo, hi) ==
    IF lo > hi THEN <<>>
    ELSE IF lo = hi THEN PollCalls(dom, lo)
    ELSE CallsOfPolls(dom, lo, (lo + hi) \div 2)
         \o CallsOfPolls(dom, (lo + hi) \div 2 + 1, hi)

\* Step 2, the polls 1..n of lines 236-274: how it ends ("popup": poll
\* raised ContactNotFoundError; "chat": the message input was found;
\* "timeout": neither within n polls), at which poll, and the calls made up
\* to there, in order.  The loop stops at the first poll that finds the
\* popup or the chat.
AwaitChatOrError(dom, n) ==
    LET ending == {k \in 1..n : PollFindsPopup(dom, k) \/ ChatVisible(dom, k)}
        poll == IF ending = {} THEN n
                ELSE CHOOSE k \in ending : \A j \in ending : k <= j
    IN [result |-> IF ending = {} THEN "timeout"
                   ELSE IF PollFindsPopup(dom, poll) THEN "popup"
                   ELSE "chat",
        poll |-> poll,
        steps |-> CallsOfPolls(dom, 1, poll)]

\* Steps 3..8, after the chat has loaded.
SendSteps(dom, steps0) ==
    LET attach_btn == find_clickable_with_fallbacks(dom, "attach_button", 10)
        photos_btn ==
            find_clickable_with_fallbacks(dom, "photos_and_videos", 5)
        caption_box == find_element_with_fallbacks(dom, "caption_input", 10)
        send_btn == find_element_with_fallbacks(dom, "send_button", 10)
        verify == find_element_with_fallbacks(dom, "message_input", 10)
        s3 == Append(steps0, "attach_click")
        s3b == Append(s3, "photos_click")
        s4 == Append(s3b, "inject_file")
        s6 == Append(s4, "inject_caption")
        s7 == Append(s6, "send_click")
        s8 == Append(s7, "verify")
    IN  IF ~attach_btn.found
        THEN Raised("TimeoutException", "attach_button", steps0)
        ELSE IF dom.raises_at = "attach_click"
        THEN Raised("Exception", "attach_click", s3)
        ELSE IF ~photos_btn.found
        THEN Raised("TimeoutException", "photos_and_videos", s3)
        ELSE IF dom.raises_at = "photos_click"
        THEN Raised("Exception", "photos_click", s3b)
        ELSE IF dom.raises_at = "inject_file"
        THEN Raised("Exception", "inject_file", s4)
        ELSE IF ~caption_box.found
        THEN Raised("TimeoutException", "caption_input", s4)
        ELSE IF dom.raises_at = "inject_caption"
        THEN Raised("Exception", "inject_caption", s6)
        ELSE IF ~send_btn.found
        THEN Raised("TimeoutException", "send_button", s6)
        ELSE IF dom.raises_at = "send_click"
        THEN Raised("Exception", "send_click", s7)
        ELSE IF ~verify.found THEN Raised("SendTimeoutError", "verify", s7)
        ELSE Returned(s8)

send_whatsapp_message(dom, timeout) ==
    IF dom.raises_at = "navigate"
    THEN Raised("Exception", "navigate", <<"navigate">>)
    ELSE LET await == AwaitChatOrError(dom, ChatPolls(timeout))
             s2 == <<"navigate">> \o await.steps
         IN CASE await.result = "popup" ->
                   Raised("ContactNotFoundError", "invalid_phone_popup", s2)
              [] await.result = "timeout" ->
                   Raised("SendTimeoutError", "chat_load", s2)
              [] OTHER -> SendSteps(dom, s2)

\* A probe that takes either indicator's absence for a connection.
is_whatsapp_connected_either(probe) ==
    IF probe.raises THEN FALSE
    ELSE probe.qr = 0 \/ probe.disconnect = 0

\* is_whatsapp_connected: no QR canvas and no "Phone not connected" text;
\* False when the probe itself raises.
is_whatsapp_connected(probe) ==
    IF probe.raises THEN FALSE
    ELSE probe.qr = 0 /\ probe.disconnect = 0

(***************************************************************************)
(* The inputs of a delivery attempt.                                       *)
(***************************************************************************)
SelectorKeys == DOMAIN SELECTORS

\* A page on which every step succeeds at its first locator.
GoodDom ==
    [popup_at |-> 0, chat_at |-> 1, prompt_at |-> 0, prompt_click |-> "ok",
     ok_click |-> "ok", escape |-> "ok", raises_at |-> "none",
     present |-> [k \in SelectorKeys |-> {1}],
     clickable |-> [k \in SelectorKeys |-> {1}]]

PollTimes == {0, 1, ChatPolls(SEND_TIMEOUT)}

\* The polls at which the continue-to-chat prompt appears, the polls at which
\* the chat then loads, and what the click on the prompt does.
PromptTimes == {1, 2, ChatPolls(SEND_TIMEOUT)}
ChatTimesWithPrompt == {0, 1, 3, ChatPolls(SEND_TIMEOUT)}
PromptClickOutcomes == {"ok", "Exception"}
RaiseSteps ==
    {"navigate", "attach_click", "photos_click", "inject_file",
     "inject_caption", "send_click"}
ClickTargets == {"attach_button", "photos_and_videos"}
PresenceTargets == {"caption_input", "send_button", "message_input"}

\* What the click on the popup's OK button and the Escape key press do.
ClickOutcomes == {"ok", "TimeoutException", "Exception"}
KeyOutcomes == {"ok", "Exception"}

\* The pages the model's attempts meet: the invalid-number popup and the chat
\* appearing at the first poll, the last poll or never; the continue prompt
\* appearing before, with or after the chat, with a click that removes it or
\* one that raises, also next to a popup whose dismissal raises; a step
\* raising; a target resolving at no locator or only at its last one.
DomScenarios ==
    {[GoodDom EXCEPT !.popup_at = p, !.chat_at = c, !.ok_click = d,
                      !.escape = e, !.clickable["popup_ok_button"] = b] :
        p \in PollTimes, c \in PollTimes, d \in ClickOutcomes,
        e \in KeyOutcomes, b \in {{}, {2}}}
    \cup {[GoodDom EXCEPT !.chat_at = c, !.prompt_at = q,
                          !.prompt_click = o] :
            c \in ChatTimesWithPrompt, q \in PromptTimes,
            o \in PromptClickOutcomes}
    \cup {[GoodDom EXCEPT !.popup_at = 1, !.ok_click = "Exception",
                          !.chat_at = 3, !.prompt_at = 2,
                          !.prompt_click = o] : o \in PromptClickOutcomes}
    \cup {[GoodDom EXCEPT !.raises_at = r] : r \in RaiseSteps}
    \cup UNION {{[GoodDom EXCEPT !.clickable[k] = h] :
                    h \in {{}, {SELECTORS[k]}}} : k \in ClickTargets}
    \cup UNION {{[GoodDom EXCEPT !.present[k] = h] :
                    h \in {{}, {SELECTORS[k]}}} : k \in PresenceTargets}

\* What the connectivity probe finds: the two element counts, or a raise.
Probes ==
    [qr : {0, 1}, disconnect : {0, 1}, raises : {FALSE}]
    \cup {[qr |-> 0, disconnect |-> 0, raises |-> TRUE]}

\* The configuration a process runs with (os.getenv).
ImagePaths == {"unset", "missing", "exists"}
Envs ==
    [DAILY_MESSAGE_LIMIT : {1, DEFAULT_DAILY_MESSAGE_LIMIT},
     IMAGE_PATH : ImagePaths,
     MESSAGE_TEMPLATE : {"unset", "ok"}]

\* The base delay a run is started with: one for which delay + jitter falls
\* below MIN_DELAY for some jitters and above it for others.
Delays == {MaxDelay}

(***************************************************************************)
(* The state.                                                              *)
(***************************************************************************)
VARIABLES
    sheet,       \* the data rows of the sheet
    env,         \* the process's configuration
    state,       \* the SessionState shared by the worker and the dashboard
    pc,          \* the worker's position in run_send_loop
    count,       \* run_send_loop's count (clamped at line 102)
    delay,       \* run_send_loop's delay
    contacts,    \* the contacts fetched
    i,           \* the loop index of "for i, contact in enumerate(contacts)"
    ticks,       \* iterations of the delay loop still to run
    send_log,    \* .tmp/send_log.json: no file yet, or what _save_log wrote
    requested,   \* history: the count the run was started with
    fetch_limit, \* history: the limit passed to get_pending_contacts, or -1
    fetched,     \* history: get_pending_contacts has returned
    attempts,    \* history: rows send_whatsapp_message was invoked for
    writes,      \* history: the write_status calls of the run
    saves,       \* history: _save_log calls of the run
    cur,         \* the attempt in progress: what the driver returned or
                 \* raised and what the write-back did, as the handlers of
                 \* lines 181-217 hold it
    last,        \* history: the attempt just finished
    stop_seen,   \* history: where the worker first read should_stop as True
    stop_mark,   \* history: a first Stop pressed during the delay loop: where
                 \* the worker was, the results and attempts so far, and the
                 \* one-second sleeps finished since
    setup,       \* history: what lines 122-148 ended in, or "none"
    ui,          \* the dashboard: where its script run is, the click it
                 \* handles, and the Stop and Pause/Resume buttons as the
                 \* page shows them
    fn,          \* Calls: the function applied, or "none"
    arg,         \* Calls: its argument
    ret,         \* Calls: what it returned or raised
    conn,        \* Connector: one call of ensure_chrome_ready, step by step
    runs,        \* Runs: the workers the Start button has spawned
    starter,     \* Runs: the Start button as the page shows it, and the
                 \* script run that draws it or handles a click on it
    reruns       \* Reruns: the calls of run_send_loop on one sheet

\* The variables of the specifications Calls, Connector, Runs and Reruns; a
\* run of the orchestrator (Spec) leaves them alone.
others == <<fn, arg, ret, conn, runs, starter, reruns>>

vars ==
    <<sheet, env, state, pc, count, delay, contacts, i, ticks, send_log,
      requested, fetch_limit, fetched, attempts, writes, saves, cur, last,
      stop_seen, stop_mark, setup, ui, fn, arg, ret, conn, runs, starter,
      reruns>>

\* Python's None, for the two current-target fields (strings, as sequences).
None == <<>>

\* SessionState(): the dataclass defaults.
SessionState ==
    [total |-> 0, sent |-> 0, failed |-> 0, remaining |-> 0,
     current_contact |-> None, current_phone |-> None,
     is_running |-> FALSE, is_paused |-> FALSE, should_stop |-> FALSE,
     results |-> <<>>]

NoLog ==
    [written |-> FALSE, sent |-> 0, failed |-> 0, total_attempted |-> 0,
     results |-> <<>>]
NoAttempt ==
    [row |-> 0, outcome |-> "none", write |-> "none",
     probed |-> FALSE, connected |-> FALSE, appended |-> FALSE,
     sent0 |-> 0, failed0 |-> 0]
\* No attempt in progress.
NoCur == [outcome |-> "none", write |-> "none", sent0 |-> 0, failed0 |-> 0]
NoStop == [pc |-> "none", results |-> 0, attempts |-> 0, sleeps |-> 0]

\* The page the first script run draws for a fresh SessionState (is_running
\* False): Stop disabled (dashboard.py 101), neither Pause nor Resume drawn
\* (106), no auto-refresh (172): the script has ended and the page is shown.
FreshPage ==
    [pc |-> "shown", click |-> "none", stop |-> FALSE, toggle |-> "none"]

\* A script run begins, for the click given ("none": no click).  The page
\* it draws replaces the one shown; until it has drawn them there is no Stop
\* and no Pause or Resume button to read.
ScriptRun(click) ==
    [pc |-> "draw_stop", click |-> click, stop |-> FALSE, toggle |-> "none"]

\* The Start button of that page: enabled (dashboard.py 82).
FreshStart == [pc |-> "shown", click |-> FALSE, enabled |-> TRUE]

\* No run made yet on any sheet.
NoReruns == [sheet |-> <<>>, written |-> {}, w |-> <<>>]

\* No function applied, no connector call, no worker spawned.
NoConn ==
    [pc |-> "none", launch_timeout |-> 0, open_at |-> 0, probes |-> 0,
     launches |-> 0, polls |-> 0, sleeps |-> 0]

OthersIdle ==
    /\ fn = "none"
    /\ arg = <<>>
    /\ ret = <<>>
    /\ conn = NoConn
    /\ runs = <<>>
    /\ starter = FreshStart
    /\ reruns = NoReruns

Init ==
    /\ OthersIdle
    /\ setup = "none"
    /\ sheet \in Sheets
    /\ env \in Envs
    /\ state = SessionState
    /\ pc = "idle"
    /\ count = 0
    /\ delay = 0
    /\ contacts = <<>>
    /\ i = 0
    /\ ticks = 0
    /\ send_log = NoLog
    /\ requested = 0
    /\ fetch_limit = -1
    /\ fetched = FALSE
    /\ attempts = <<>>
    /\ writes = <<>>
    /\ saves = 0
    /\ cur = NoCur
    /\ last = NoAttempt
    /\ stop_seen = "none"
    /\ stop_mark = NoStop
    /\ ui = FreshPage

(***************************************************************************)
(* dashboard.py: the sidebar, one script run at a time.  Streamlit runs    *)
(* the script from top to bottom for every click, for every change of a    *)
(* widget and for the auto-refresh of lines 172-174.  A button's disabled  *)
(* attribute is computed by the run that draws the page; a click on the    *)
(* page shown starts a later run, in which st.button returns True for the  *)
(* button clicked whatever the flags are by then, and the handler runs.    *)
(* ui.stop and ui.toggle are the buttons as the page shows them, ui.pc the *)
(* position of the script run, ui.click the click it has to handle.  The   *)
(* user acts on a page whose script run is over (or sleeps in line 173).   *)
(***************************************************************************)

\* "Start Sending" (lines 82-98): a fresh SessionState, a new worker thread
\* and st.rerun().  A behaviour of the model is one run: Start is clicked
\* once, on the page drawn for the fresh SessionState, where it is enabled.
Start ==
    /\ pc = "idle"
    /\ ui.pc = "shown"
    /\ \E msg_count \in 1..MaxCount, d \in Delays :
          /\ count' = msg_count
          /\ requested' = msg_count
          /\ delay' = d
    /\ state' = SessionState
    /\ pc' = "spawned"
    /\ contacts' = <<>>
    /\ i' = 0
    /\ ticks' = 0
    /\ fetch_limit' = -1
    /\ fetched' = FALSE
    /\ attempts' = <<>>
    /\ writes' = <<>>
    /\ saves' = 0
    /\ cur' = NoCur
    /\ last' = NoAttempt
    /\ stop_seen' = "none"
    /\ stop_mark' = NoStop
    /\ ui' = ScriptRun("none")
    /\ UNCHANGED others
    /\ setup' = "none"
    /\ UNCHANGED <<sheet, env, send_log>>

\* A script run with no click: the auto-refresh of lines 172-174 (two
\* seconds after a run that read is_running as True at line 172), or the
\* user changing the count or the delay (lines 59-75).
Rerun ==
    /\ ui.pc = "shown"
    /\ ui' = ScriptRun("none")
    /\ UNCHANGED others
    /\ UNCHANGED <<setup, sheet, env, state, pc, count, delay, contacts, i,
                   ticks, send_log, requested, fetch_limit, fetched, attempts,
                   writes, saves, cur, last, stop_seen, stop_mark>>

\* A click on Stop, which the page shows enabled: a script run starts.
ClickStop ==
    /\ ui.pc = "shown"
    /\ ui.stop
    /\ ui' = ScriptRun("stop")
    /\ UNCHANGED others
    /\ UNCHANGED <<setup, sheet, env, state, pc, count, delay, contacts, i,
                   ticks, send_log, requested, fetch_limit, fetched, attempts,
                   writes, saves, cur, last, stop_seen, stop_mark>>

\* A click on Pause or on Resume, whichever the page shows.
ClickToggle ==
    /\ ui.pc = "shown"
    /\ ui.toggle # "none"
    /\ ui' = ScriptRun(ui.toggle)
    /\ UNCHANGED others
    /\ UNCHANGED <<setup, sheet, env, state, pc, count, delay, contacts, i,
                   ticks, send_log, requested, fetch_limit, fetched, attempts,
                   writes, saves, cur, last, stop_seen, stop_mark>>

\* Lines 101-102: stop_disabled = not session.is_running, and the button;
\* a run started by a click on Stop goes on to the handler.
DrawStop ==
    /\ ui.pc = "draw_stop"
    /\ ui' = [ui EXCEPT !.stop = state.is_running,
                        !.pc = IF ui.click = "stop" THEN "write_stop"
                               ELSE "draw_toggle"]
    /\ UNCHANGED others
    /\ UNCHANGED <<setup, sheet, env, state, pc, count, delay, contacts, i,
                   ticks, send_log, requested, fetch_limit, fetched, attempts,
                   writes, saves, cur, last, stop_seen, stop_mark>>

\* Lines 103-104: session.should_stop = True, st.rerun().
Stop ==
    /\ ui.pc = "write_stop"
    /\ state' = [state EXCEPT !.should_stop = TRUE]
    /\ stop_mark' =
          IF ~state.should_stop /\ pc \in {"delay_test", "delay_sleep"}
          THEN [pc |-> pc, results |-> Len(state.results),
                attempts |-> Len(attempts), sleeps |-> 0]
          ELSE stop_mark
    /\ ui' = ScriptRun("none")
    /\ UNCHANGED others
    /\ UNCHANGED <<setup, sheet, env, pc, count, delay, contacts, i, ticks, send_log,
                   requested, fetch_limit, fetched, attempts, writes, saves,
                   cur, last, stop_seen>>

\* The button lines 106-112 draw: Resume for a paused running session,
\* Pause for a running one, none when session.is_running is False.
ToggleDrawn(st) ==
    IF ~st.is_running THEN "none"
    ELSE IF st.is_paused THEN "resume" ELSE "pause"

\* Lines 106-112: the button is drawn from the flags as they are now; the
\* handler runs if the button drawn is the one that was clicked, and a click
\* on a button that is no longer drawn is lost.  With no handler to run the
\* script goes on to the progress display and ends (or sleeps, line 173).
DrawToggle ==
    /\ ui.pc = "draw_toggle"
    /\ LET drawn == ToggleDrawn(state)
           handled == ui.click # "none" /\ ui.click = drawn
       IN ui' = [ui EXCEPT !.toggle = drawn,
                           !.pc = IF ~handled THEN "shown"
                                  ELSE IF drawn = "resume" THEN "write_resume"
                                  ELSE "write_pause",
                           !.click = IF handled THEN @ ELSE "none"]
    /\ UNCHANGED others
    /\ UNCHANGED <<setup, sheet, env, state, pc, count, delay, contacts, i,
                   ticks, send_log, requested, fetch_limit, fetched, attempts,
                   writes, saves, cur, last, stop_seen, stop_mark>>

\* Lines 113-114: session.is_paused = True, st.rerun().
Pause ==
    /\ ui.pc = "write_pause"
    /\ state' = [state EXCEPT !.is_paused = TRUE]
    /\ ui' = ScriptRun("none")
    /\ UNCHANGED others
    /\ UNCHANGED <<setup, sheet, env, pc, count, delay, contacts, i, ticks, send_log,
                   requested, fetch_limit, fetched, attempts, writes, saves,
                   cur, last, stop_seen, stop_mark>>

\* Lines 109-110: session.is_paused = False, st.rerun().
Resume ==
    /\ ui.pc = "write_resume"
    /\ state' = [state EXCEPT !.is_paused = FALSE]
    /\ ui' = ScriptRun("none")
    /\ UNCHANGED others
    /\ UNCHANGED <<setup, sheet, env, pc, count, delay, contacts, i, ticks, send_log,
                   requested, fetch_limit, fetched, attempts, writes, saves,
                   cur, last, stop_seen, stop_mark>>

(***************************************************************************)
(* send_messages.py: run_send_loop, the worker thread.                     *)
(***************************************************************************)

\* A count that is not clamped at the daily ceiling.
ClampCountMissing(c, limit) == c

\* count = min(count, int(os.getenv("DAILY_MESSAGE_LIMIT", "45")))
ClampCount(c, limit) == Min(c, limit)

\* Lines 102-109: the clamp, the running flag, total and remaining.
Begin ==
    /\ pc = "spawned"
    /\ LET c == ClampCount(count, env.DAILY_MESSAGE_LIMIT)
       IN /\ count' = c
          /\ state' = [state EXCEPT !.is_running = TRUE, !.total = c,
                                    !.remaining = c]
    /\ pc' = "image_check"
    /\ UNCHANGED <<others, ui>>
    /\ UNCHANGED <<setup, sheet, env, delay, contacts, i, ticks, send_log,
                   requested, fetch_limit, fetched, attempts, writes, saves,
                   cur, last, stop_seen, stop_mark>>

\* Lines 111-117: the image check.  Path(None) raises outside the try: the
\* exception leaves run_send_loop and the thread ends with the running flag
\* set.  A path that names no file is logged, the running flag is cleared
\* and the run returns.
ImageCheck ==
    /\ pc = "image_check"
    /\ CASE env.IMAGE_PATH = "unset" ->
              /\ pc' = "crashed"
              /\ UNCHANGED state
         [] env.IMAGE_PATH = "missing" ->
              /\ state' = [state EXCEPT !.is_running = FALSE]
              /\ pc' = "returned"
         [] OTHER ->
              /\ pc' = "setup"
              /\ UNCHANGED state
    /\ UNCHANGED <<others, ui>>
    /\ UNCHANGED <<setup, sheet, env, count, delay, contacts, i, ticks,
                   send_log, requested, fetch_limit, fetched, attempts, writes,
                   saves, cur, last, stop_seen, stop_mark>>

\* What lines 122-148 can end in: the connector, the tab discovery or the
\* fetch raising, or the fetch returning.
SetupOutcomes == {"connector_error", "tab_error", "fetch_error", "fetched"}

\* A fetch whose empty result is not noticed: no early return.
NoPendingUnnoticed(got) == FALSE

\* Line 151: "if actual_count == 0".
NoPending(got) == Len(got) = 0

\* Lines 122-161: connect, find the tab, fetch; no pending contact clears
\* the running flag and returns (through finally).
Setup ==
    /\ pc = "setup"
    /\ \E outcome \in SetupOutcomes :
          /\ setup' = outcome
          /\ IF outcome = "fetched"
             THEN LET got == get_pending_contacts(sheet, count)
                  IN /\ contacts' = got
                     /\ fetch_limit' = count
                     /\ fetched' = TRUE
                     /\ IF NoPending(got)
                        THEN /\ state' = [state EXCEPT !.is_running = FALSE]
                             /\ pc' = "finally"
                        ELSE /\ state' = [state EXCEPT !.total = Len(got),
                                                       !.remaining = Len(got)]
                             /\ pc' = "loop_head"
             ELSE /\ pc' = "finally"
                  /\ fetch_limit' = IF outcome = "fetch_error" THEN count
                                    ELSE -1
                  /\ UNCHANGED <<contacts, state, fetched>>
    /\ i' = 0
    /\ UNCHANGED <<others, ui>>
    /\ UNCHANGED <<sheet, env, count, delay, ticks, send_log, requested,
                   attempts, writes, saves, cur, last, stop_seen, stop_mark>>

\* Where the worker first reads should_stop as True.
SeeStop(where) ==
    IF state.should_stop /\ stop_seen = "none" THEN where ELSE stop_seen

\* Lines 164-167: the next contact, or the end of the list; a stop halts.
LoopHead ==
    /\ pc = "loop_head"
    /\ IF i >= Len(contacts) THEN /\ pc' = "finally"
                                  /\ UNCHANGED stop_seen
       ELSE /\ pc' = IF state.should_stop THEN "finally" ELSE "pause_test"
            /\ stop_seen' = SeeStop("loop_head")
    /\ UNCHANGED <<others, ui>>
    /\ UNCHANGED <<setup, sheet, env, state, count, delay, contacts, i, ticks,
                   send_log, requested, fetch_limit, fetched, attempts, writes,
                   saves, cur, last, stop_mark>>

\* A pause loop that never finds the flag set.
StillPausedIgnored(st) == FALSE

\* Line 169: the test of "while state.is_paused".
StillPaused(st) == st.is_paused

\* Line 169: while state.is_paused.
PauseTest ==
    /\ pc = "pause_test"
    /\ pc' = IF StillPaused(state) THEN "pause_sleep" ELSE "attempt"
    /\ UNCHANGED <<others, ui>>
    /\ UNCHANGED <<setup, sheet, env, state, count, delay, contacts, i, ticks,
                   send_log, requested, fetch_limit, fetched, attempts, writes,
                   saves, cur, last, stop_seen, stop_mark>>

\* Lines 170-172: sleep a second, then "if state.should_stop: break", which
\* leaves the while loop only.
PauseSleep ==
    /\ pc = "pause_sleep"
    /\ pc' = IF state.should_stop THEN "attempt" ELSE "pause_test"
    /\ stop_seen' = SeeStop("pause")
    /\ UNCHANGED <<others, ui>>
    /\ UNCHANGED <<setup, sheet, env, state, count, delay, contacts, i, ticks,
                   send_log, requested, fetch_limit, fetched, attempts, writes,
                   saves, cur, last, stop_mark>>

\* Lines 174-177: the current target is set and the attempt is logged.
BeginAttempt ==
    /\ pc = "attempt"
    /\ LET contact == contacts[i + 1]
       IN state' = [state EXCEPT !.current_contact = contact.first_name,
                                 !.current_phone = contact.phone_raw]
    /\ pc' = "caption"
    /\ UNCHANGED <<others, ui>>
    /\ UNCHANGED <<setup, sheet, env, count, delay, contacts, i, ticks, send_log,
                   requested, fetch_limit, fetched, attempts, writes, saves,
                   cur, last, stop_seen, stop_mark>>

\* Lines 179-187: the caption (template.format raises on an unset template,
\* to the outer except), then the call of the driver.
InvokeDriver ==
    /\ pc = "caption"
    /\ IF env.MESSAGE_TEMPLATE = "unset"
       THEN /\ pc' = "finally"
            /\ UNCHANGED attempts
       ELSE /\ pc' = "sending"
            /\ attempts' = Append(attempts, contacts[i + 1].row_number)
    /\ UNCHANGED <<others, ui>>
    /\ UNCHANGED <<setup, sheet, env, state, count, delay, contacts, i, ticks,
                   send_log, requested, fetch_limit, fetched, writes, saves,
                   cur, last, stop_seen, stop_mark>>

\* The except clause of lines 181-213 an outcome of the driver selects.
\* ContactNotFoundError and SendTimeoutError are WhatsAppSendErrors; selenium's
\* TimeoutException is not.
Handler(outcome) ==
    CASE outcome = "ok" -> "success"
      [] outcome = "ContactNotFoundError" -> "not_found"
      [] outcome \in {"SendTimeoutError", "WhatsAppSendError"} -> "send_failed"
      [] OTHER -> "unexpected"

SendResult(row, success) == [row |-> row, success |-> success]

\* A worker that resumes a paused run when it records a result.
RecordResumes(st, row, success) ==
    [st EXCEPT !.results = Append(@, [row |-> row, success |-> success]),
               !.remaining = @ - 1, !.is_paused = FALSE]

\* Lines 215-217: the result is appended and remaining decremented.
Record(st, row, success) ==
    [st EXCEPT !.results = Append(@, SendResult(row, success)),
               !.remaining = @ - 1]

\* Line 207: an unexpected exception is counted as failed.
CountUnexpected(st) == [st EXCEPT !.failed = @ + 1]

\* An unexpected exception after which the same contact is tried again.
UnexpectedRetried(st, row, connected) ==
    IF connected
    THEN [state |-> st, pc |-> "attempt", probed |-> TRUE,
          appended |-> FALSE]
    ELSE [state |-> st, pc |-> "finally", probed |-> TRUE,
          appended |-> FALSE]

\* Lines 211-217, after the unexpected exception was counted: the loop is
\* left (before the result is appended) when the probe finds no connection.
Unexpected(st, row, connected) ==
    IF connected
    THEN [state |-> Record(st, row, FALSE), pc |-> "delay_check",
          probed |-> TRUE, appended |-> TRUE]
    ELSE [state |-> st, pc |-> "finally", probed |-> TRUE,
          appended |-> FALSE]

\* Lines 181-217 for one contact, from the call of the driver to the end of
\* the iteration: r is what the driver returned or raised,
\* write_raises whether write_status raises, connected what the probe says.
\* A write_status that raises inside the try is caught as unexpected; one
\* that raises inside an except clause leaves the loop for line 232.
AttemptEffect(st, row, r, write_raises, connected) ==
    LET h == Handler(r.outcome)
    IN CASE h = "success" /\ ~write_raises ->
               [state |-> Record([st EXCEPT !.sent = @ + 1], row, TRUE),
                pc |-> "delay_check", probed |-> FALSE, appended |-> TRUE,
                write |-> <<[row |-> row, success |-> TRUE,
                             raised |-> FALSE]>>]
         [] h = "success" /\ write_raises ->
               Unexpected(CountUnexpected(st), row, connected) @@
               [write |-> <<[row |-> row, success |-> TRUE,
                             raised |-> TRUE]>>]
         [] h \in {"not_found", "send_failed"} /\ ~write_raises ->
               [state |-> Record([st EXCEPT !.failed = @ + 1], row, FALSE),
                pc |-> "delay_check", probed |-> FALSE, appended |-> TRUE,
                write |-> <<[row |-> row, success |-> FALSE,
                             raised |-> FALSE]>>]
         [] h \in {"not_found", "send_failed"} /\ write_raises ->
               [state |-> st, pc |-> "finally", probed |-> FALSE,
                appended |-> FALSE,
                write |-> <<[row |-> row, success |-> FALSE,
                             raised |-> TRUE]>>]
         [] OTHER ->
               Unexpected(CountUnexpected(st), row, connected) @@
               [write |-> <<>>]

\* The sheet after the write-back calls w (a call that raised wrote nothing).
ApplyWrites(rows, w) ==
    IF w # <<>> /\ ~w[1].raised
    THEN write_status(rows, w[1].row, w[1].success)
    ELSE rows

\* What send_whatsapp_message(driver, phone_clean, caption, image_path) returns
\* or raises on the model's pages (its timeout is the default).
DriverResults == {send_whatsapp_message(dom, SEND_TIMEOUT) : dom \in DomScenarios}

\* What the send loop sees of it: True ("ok"), or the class of the exception:
\* ContactNotFoundError (line 243), SendTimeoutError (lines 277, 320),
\* selenium's TimeoutException from a resolver (lines 284-311), or another
\* exception of the browser.
DriverOutcomes ==
    {"ok", "ContactNotFoundError", "SendTimeoutError", "TimeoutException",
     "Exception"}

\* The attempt that has come to its end, for the properties to read.
Finished(row, c, probed, connected, appended) ==
    [row |-> row, outcome |-> c.outcome, write |-> c.write,
     probed |-> probed, connected |-> connected, appended |-> appended,
     sent0 |-> c.sent0, failed0 |-> c.failed0]

\* Lines 182-187 and 206-208: the driver returns or raises.  An exception
\* that is no WhatsAppSendError is counted as failed at once (line 207),
\* before the connection is probed.
DriverReturns ==
    /\ pc = "sending"
    /\ \E outcome \in DriverOutcomes :
          /\ cur' = [outcome |-> outcome, write |-> "none",
                     sent0 |-> state.sent, failed0 |-> state.failed]
          /\ IF Handler(outcome) = "unexpected"
             THEN /\ state' = CountUnexpected(state)
                  /\ pc' = "probe"
             ELSE /\ pc' = "write_back"
                  /\ UNCHANGED state
    /\ UNCHANGED <<others, ui>>
    /\ UNCHANGED <<setup, sheet, env, count, delay, contacts, i, ticks,
                   send_log, requested, fetch_limit, fetched, attempts, writes,
                   saves, last, stop_seen, stop_mark>>

\* Lines 189, 195, 201: write_status, which stores the status or raises.  A
\* raise inside the try (line 189) is caught at line 206 and counted as
\* failed; a raise inside an except clause (195, 201) leaves the loop for
\* line 232.
WriteBack ==
    /\ pc = "write_back"
    /\ \E write_raises \in BOOLEAN :
          LET row == contacts[i + 1].row_number
              success == Handler(cur.outcome) = "success"
              w == <<[row |-> row, success |-> success,
                      raised |-> write_raises]>>
              c == [cur EXCEPT !.write = IF write_raises THEN "raised"
                                         ELSE IF success THEN "1" ELSE "0"]
          IN /\ writes' = writes \o w
             /\ sheet' = ApplyWrites(sheet, w)
             /\ CASE ~write_raises ->
                       /\ pc' = "record"
                       /\ cur' = c
                       /\ UNCHANGED <<state, last>>
                  [] write_raises /\ success ->
                       /\ state' = CountUnexpected(state)
                       /\ pc' = "probe"
                       /\ cur' = c
                       /\ UNCHANGED last
                  [] OTHER ->
                       /\ pc' = "finally"
                       /\ cur' = NoCur
                       /\ last' = Finished(row, c, FALSE, FALSE, FALSE)
                       /\ UNCHANGED state
    /\ UNCHANGED <<others, ui>>
    /\ UNCHANGED <<setup, env, count, delay, contacts, i, ticks, send_log,
                   requested, fetch_limit, fetched, attempts, saves, stop_seen,
                   stop_mark>>

\* Lines 190-192, 196-198, 202-204: the counter, and the line of the log.
CountResult ==
    /\ pc = "record"
    /\ state' = IF Handler(cur.outcome) = "success"
                THEN [state EXCEPT !.sent = @ + 1]
                ELSE [state EXCEPT !.failed = @ + 1]
    /\ pc' = "append"
    /\ UNCHANGED <<others, ui>>
    /\ UNCHANGED <<setup, sheet, env, count, delay, contacts, i, ticks,
                   send_log, requested, fetch_limit, fetched, attempts, writes,
                   saves, cur, last, stop_seen, stop_mark>>

\* Lines 215-220: the result is appended and remaining decremented.
\* on_progress is None, as in the repository's two callers.
RecordResult ==
    /\ pc = "append"
    /\ LET row == contacts[i + 1].row_number
       IN /\ state' = Record(state, row, Handler(cur.outcome) = "success")
          /\ last' = Finished(row, cur, FALSE, FALSE, TRUE)
    /\ pc' = "delay_check"
    /\ cur' = NoCur
    /\ UNCHANGED <<others, ui>>
    /\ UNCHANGED <<setup, sheet, env, count, delay, contacts, i, ticks,
                   send_log, requested, fetch_limit, fetched, attempts, writes,
                   saves, stop_seen, stop_mark>>

\* Lines 211-217: the probe of the connection after an unexpected exception;
\* connected, the result is appended; not connected, the loop is left.
Probe ==
    /\ pc = "probe"
    /\ \E probe \in Probes :
          LET row == contacts[i + 1].row_number
              e == Unexpected(state, row, is_whatsapp_connected(probe))
          IN /\ state' = e.state
             /\ pc' = e.pc
             /\ last' = Finished(row, cur, e.probed,
                                 e.probed /\ probe.qr = 0
                                    /\ probe.disconnect = 0 /\ ~probe.raises,
                                 e.appended)
    /\ cur' = NoCur
    /\ UNCHANGED <<others, ui>>
    /\ UNCHANGED <<setup, sheet, env, count, delay, contacts, i, ticks,
                   send_log, requested, fetch_limit, fetched, attempts, writes,
                   saves, stop_seen, stop_mark>>

\* A delay that is not raised to the minimum of 20 seconds.
ActualDelayNoMinimum(d, jitter) == Max(0, d + jitter)

\* actual_delay = max(20, delay + jitter), and the iterations int(actual_delay)
\* of the delay loop; the jitter is drawn as a whole number of seconds.
ActualDelay(d, jitter) == Max(MIN_DELAY, d + jitter)

\* Lines 222-226: no delay after the last contact or once stop is requested.
DelayCheck ==
    /\ pc = "delay_check"
    /\ IF i < Len(contacts) - 1 /\ ~state.should_stop
       THEN /\ \E jitter \in JITTER_LOW..JITTER_HIGH :
                  ticks' = ActualDelay(delay, jitter)
            /\ pc' = "delay_test"
            /\ UNCHANGED <<i, stop_seen>>
       ELSE /\ i' = i + 1
            /\ pc' = "loop_head"
            /\ stop_seen' = IF i < Len(contacts) - 1
                            THEN SeeStop("delay_check")
                            ELSE stop_seen
            /\ UNCHANGED ticks
    /\ last' = NoAttempt
    /\ UNCHANGED <<others, ui, cur>>
    /\ UNCHANGED <<setup, sheet, env, state, count, delay, contacts, send_log,
                   requested, fetch_limit, fetched, attempts, writes, saves,
                   stop_mark>>

\* A delay loop that sleeps without looking at the stop flag.
DelayStopsUnchecked(st) == FALSE

\* Line 228: "if state.should_stop: break".
DelayStops(st) == st.should_stop

\* Lines 227-229: the head of an iteration of the delay loop.
DelayTest ==
    /\ pc = "delay_test"
    /\ IF ticks = 0
       THEN /\ i' = i + 1
            /\ pc' = "loop_head"
            /\ UNCHANGED <<ticks, stop_seen>>
       ELSE IF DelayStops(state)
       THEN /\ i' = i + 1
            /\ pc' = "loop_head"
            /\ ticks' = 0
            /\ stop_seen' = SeeStop("delay")
       ELSE /\ pc' = "delay_sleep"
            /\ UNCHANGED <<i, ticks, stop_seen>>
    /\ UNCHANGED <<others, ui>>
    /\ UNCHANGED <<setup, sheet, env, state, count, delay, contacts, send_log,
                   requested, fetch_limit, fetched, attempts, writes, saves, cur, last,
                   stop_mark>>

\* Line 230: time.sleep(1).
DelaySleep ==
    /\ pc = "delay_sleep"
    /\ ticks' = ticks - 1
    /\ pc' = "delay_test"
    /\ stop_mark' = IF stop_mark.pc # "none"
                    THEN [stop_mark EXCEPT !.sleeps = @ + 1]
                    ELSE stop_mark
    /\ UNCHANGED <<others, ui>>
    /\ UNCHANGED <<setup, sheet, env, state, count, delay, contacts, i, send_log,
                   requested, fetch_limit, fetched, attempts, writes, saves,
                   cur, last, stop_seen>>

\* A _save_log that writes no file.
save_log_skipped(st) == NoLog

\* _save_log: the counters and the serialized results.
save_log(st) ==
    [written |-> TRUE, sent |-> st.sent, failed |-> st.failed,
     total_attempted |-> st.sent + st.failed, results |-> st.results]

\* Lines 232-238: the outer except logs the error; the finally block clears
\* the running flag and the current target.
Finally ==
    /\ pc = "finally"
    /\ state' = [state EXCEPT !.is_running = FALSE,
                              !.current_contact = None,
                              !.current_phone = None]
    /\ pc' = "save_log"
    /\ last' = NoAttempt
    /\ cur' = NoCur
    /\ UNCHANGED <<others, ui>>
    /\ UNCHANGED <<setup, sheet, env, count, delay, contacts, i, ticks,
                   send_log, requested, fetch_limit, fetched, attempts, writes,
                   saves, stop_seen, stop_mark>>

\* Line 239: _save_log writes the file.
SaveLog ==
    /\ pc = "save_log"
    /\ send_log' = save_log(state)
    /\ saves' = saves + 1
    /\ pc' = "summary"
    /\ UNCHANGED <<others, ui>>
    /\ UNCHANGED <<setup, sheet, env, state, count, delay, contacts, i, ticks,
                   requested, fetch_limit, fetched, attempts, writes, cur,
                   last, stop_seen, stop_mark>>

\* Lines 240-243: the summary is logged, the results are returned and the
\* thread ends.
Return ==
    /\ pc = "summary"
    /\ pc' = "returned"
    /\ UNCHANGED <<others, ui>>
    /\ UNCHANGED <<setup, sheet, env, state, count, delay, contacts, i, ticks,
                   send_log, requested, fetch_limit, fetched, attempts, writes,
                   saves, cur, last, stop_seen, stop_mark>>

Next ==
    \/ Start
    \/ Rerun
    \/ ClickStop
    \/ ClickToggle
    \/ DrawStop
    \/ Stop
    \/ DrawToggle
    \/ Pause
    \/ Resume
    \/ Begin
    \/ ImageCheck
    \/ Setup
    \/ LoopHead
    \/ PauseTest
    \/ PauseSleep
    \/ BeginAttempt
    \/ InvokeDriver
    \/ DriverReturns
    \/ WriteBack
    \/ CountResult
    \/ RecordResult
    \/ Probe
    \/ DelayCheck
    \/ DelayTest
    \/ DelaySleep
    \/ Finally
    \/ SaveLog
    \/ Return

Spec == Init /\ [][Next]_vars

(***************************************************************************)
(* FairSpec: Spec with the worker thread scheduled fairly.  The worker is  *)
(* an operating-system thread (dashboard.py 95-97): whenever it has a next *)
(* step it eventually takes it, every time.sleep returns, and every call   *)
(* of the driver, of the sheet or of the connector returns or raises.  The *)
(* dashboard gets no fairness: nobody has to press a button or keep the    *)
(* page open.                                                              *)
(***************************************************************************)
Worker ==
    \/ Begin
    \/ ImageCheck
    \/ Setup
    \/ LoopHead
    \/ PauseTest
    \/ PauseSleep
    \/ BeginAttempt
    \/ InvokeDriver
    \/ DriverReturns
    \/ WriteBack
    \/ CountResult
    \/ RecordResult
    \/ Probe
    \/ DelayCheck
    \/ DelayTest
    \/ DelaySleep
    \/ Finally
    \/ SaveLog
    \/ Return

FairSpec == Init /\ [][Next]_vars /\ WF_vars(Worker)

(***************************************************************************)
(* The orchestrator's variables while no run is started: the state the     *)
(* specifications Calls, Connector and Runs keep them in.                  *)
(***************************************************************************)
main ==
    <<sheet, state, pc, count, delay, contacts, i, ticks, send_log,
      requested, fetch_limit, fetched, attempts, writes, saves, cur, last,
      stop_seen, stop_mark, setup, ui>>

MainIdle ==
    /\ sheet = <<>>
    /\ state = SessionState
    /\ pc = "idle"
    /\ count = 0
    /\ delay = 0
    /\ contacts = <<>>
    /\ i = 0
    /\ ticks = 0
    /\ send_log = NoLog
    /\ requested = 0
    /\ fetch_limit = -1
    /\ fetched = FALSE
    /\ attempts = <<>>
    /\ writes = <<>>
    /\ saves = 0
    /\ cur = NoCur
    /\ last = NoAttempt
    /\ stop_seen = "none"
    /\ stop_mark = NoStop
    /\ setup = "none"
    /\ ui = FreshPage

\* The configuration of the repository's .env: the defaults, everything set.
DefaultEnv ==
    [DAILY_MESSAGE_LIMIT |-> DEFAULT_DAILY_MESSAGE_LIMIT,
     IMAGE_PATH |-> "exists", MESSAGE_TEMPLATE |-> "ok"]

(***************************************************************************)
(* Calls: one application of a function of google_sheets.py or             *)
(* whatsapp_sender.py to an argument drawn from a bounded set.             *)
(***************************************************************************)

\* The strings of at most n characters over an alphabet.
StringsOver(alphabet, n) == UNION {[1..k -> alphabet] : k \in 0..n}

\* Phone cells: digits (a repeated one too), punctuation, a blank, and two
\* characters outside ASCII that str.isdigit() accepts.
PhoneAlphabet == {"1", "2", "+", " ", "U+00B2", "U+0661"}
PhoneStrings == StringsOver(PhoneAlphabet, MaxLen)

\* Sort-name cells: letters, the comma, a blank, a line feed and a no-break
\* space.
NameAlphabet == {"a", "b", ",", " ", "\n", "U+00A0"}
NameStrings == StringsOver(NameAlphabet, MaxLen)

\* The rows get_pending_contacts is applied to: the status cell empty, blank
\* (a space, a line feed), or holding 1 or 0; the phone with digits, blank,
\* without digits or empty.
FetchRowSamples ==
    [status : {<<>>, <<" ">>, <<"\n">>, <<"1">>, <<"0">>},
     sort_name : {NameSample},
     phone : PhoneSamples \cup {<<>>}]
FetchSheets == UNION {[1..n -> FetchRowSamples] : n \in 0..MaxRows}
FetchLimits == 0..(MaxRows + 1)

\* The pages a resolver is applied to: the predicate the call waits for holds
\* for the locators in hits; the other predicate holds for every locator (a
\* presence call) or for none (a clickable call).
ResolverTimeouts == {5, 10}
PresenceDoms ==
    UNION {{[selector_key |-> k,
             dom |-> [GoodDom EXCEPT !.present[k] = hits, !.clickable[k] = {}]] :
               hits \in SUBSET (1..SELECTORS[k])} : k \in SelectorKeys}
ClickableDoms ==
    UNION {{[selector_key |-> k,
             dom |-> [GoodDom EXCEPT !.clickable[k] = hits,
                                     !.present[k] = 1..SELECTORS[k]]] :
               hits \in SUBSET (1..SELECTORS[k])} : k \in SelectorKeys}

CallInputs ==
    {[fn |-> "normalize_phone", phone_raw |-> p] : p \in PhoneStrings}
    \cup {[fn |-> "extract_first_name", sort_name |-> n] : n \in NameStrings}
    \cup {[fn |-> "get_pending_contacts", rows |-> r, limit |-> l] :
            r \in FetchSheets, l \in FetchLimits}
    \cup {[fn |-> "find_element_with_fallbacks",
           selector_key |-> d.selector_key, dom |-> d.dom, timeout |-> t] :
            d \in PresenceDoms, t \in ResolverTimeouts}
    \cup {[fn |-> "find_clickable_with_fallbacks",
           selector_key |-> d.selector_key, dom |-> d.dom, timeout |-> t] :
            d \in ClickableDoms, t \in ResolverTimeouts}
    \cup {[fn |-> "send_whatsapp_message", dom |-> d] : d \in DomScenarios}

CallsInit ==
    /\ MainIdle
    /\ env = DefaultEnv
    /\ fn = "none"
    /\ arg \in CallInputs
    /\ ret = <<>>
    /\ conn = NoConn
    /\ runs = <<>>
    /\ starter = FreshStart
    /\ reruns = NoReruns

CallNormalizePhone ==
    /\ fn = "none"
    /\ arg.fn = "normalize_phone"
    /\ fn' = arg.fn
    /\ ret' = normalize_phone(arg.phone_raw)
    /\ UNCHANGED <<main, env, arg, conn, runs, starter, reruns>>

CallExtractFirstName ==
    /\ fn = "none"
    /\ arg.fn = "extract_first_name"
    /\ fn' = arg.fn
    /\ ret' = extract_first_name(arg.sort_name)
    /\ UNCHANGED <<main, env, arg, conn, runs, starter, reruns>>

CallGetPendingContacts ==
    /\ fn = "none"
    /\ arg.fn = "get_pending_contacts"
    /\ fn' = arg.fn
    /\ ret' = get_pending_contacts(arg.rows, arg.limit)
    /\ UNCHANGED <<main, env, arg, conn, runs, starter, reruns>>

CallFindElement ==
    /\ fn = "none"
    /\ arg.fn = "find_element_with_fallbacks"
    /\ fn' = arg.fn
    /\ ret' = find_element_with_fallbacks(arg.dom, arg.selector_key,
                                          arg.timeout)
    /\ UNCHANGED <<main, env, arg, conn, runs, starter, reruns>>

CallFindClickable ==
    /\ fn = "none"
    /\ arg.fn = "find_clickable_with_fallbacks"
    /\ fn' = arg.fn
    /\ ret' = find_clickable_with_fallbacks(arg.dom, arg.selector_key,
                                            arg.timeout)
    /\ UNCHANGED <<main, env, arg, conn, runs, starter, reruns>>

CallSendWhatsappMessage ==
    /\ fn = "none"
    /\ arg.fn = "send_whatsapp_message"
    /\ fn' = arg.fn
    /\ ret' = send_whatsapp_message(arg.dom, SEND_TIMEOUT)
    /\ UNCHANGED <<main, env, arg, conn, runs, starter, reruns>>

CallsNext ==
    \/ CallNormalizePhone
    \/ CallExtractFirstName
    \/ CallGetPendingContacts
    \/ CallFindElement
    \/ CallFindClickable
    \/ CallSendWhatsappMessage

Calls == CallsInit /\ [][CallsNext]_vars

(***************************************************************************)
(* Connector: one call of ensure_chrome_ready, step by step.  The port is  *)
(* an input: open_at is the call of _is_port_open (the initial probe is    *)
(* the first) from which the port accepts connections, 0 if it never does. *)
(***************************************************************************)
LaunchTimeouts == (0..MaxLaunchTimeout) \cup {LAUNCH_TIMEOUT}

\* A wait that polls twice as often as the launch timeout allows.
PollLimitDoubled(launch_timeout) == launch_timeout * 4

\* for _ in range(launch_timeout * 2)
PollLimit(launch_timeout) == launch_timeout * 2

\* _is_port_open at the call numbered probe.
is_port_open(c, probe) == c.open_at # 0 /\ probe >= c.open_at

ConnectorInit ==
    /\ MainIdle
    /\ env = DefaultEnv
    /\ fn = "none"
    /\ arg = <<>>
    /\ ret = <<>>
    /\ runs = <<>>
    /\ starter = FreshStart
    /\ reruns = NoReruns
    /\ \E t \in LaunchTimeouts :
          \E o \in 0..(PollLimit(t) + 2) :
             conn = [NoConn EXCEPT !.pc = "probe", !.launch_timeout = t,
                                   !.open_at = o]

\* Lines 117-118: the probe; no launch when the port is open.
ConnProbe ==
    /\ conn.pc = "probe"
    /\ conn' = [conn EXCEPT !.probes = @ + 1,
                            !.pc = IF is_port_open(conn, conn.probes + 1)
                                   THEN "returned" ELSE "launch"]
    /\ UNCHANGED <<main, env, fn, arg, ret, runs, starter, reruns>>

\* Lines 120-139: the profile directory and subprocess.Popen, which may
\* raise (no such executable).
ConnLaunch ==
    /\ conn.pc = "launch"
    /\ \E started \in BOOLEAN :
          conn' = [conn EXCEPT !.launches = @ + 1,
                               !.pc = IF started THEN "poll" ELSE "oserror"]
    /\ UNCHANGED <<main, env, fn, arg, ret, runs, starter, reruns>>

\* Lines 142-150: the head of the polling loop and the poll; RuntimeError
\* after the last poll.
ConnPoll ==
    /\ conn.pc = "poll"
    /\ IF conn.polls >= PollLimit(conn.launch_timeout)
       THEN conn' = [conn EXCEPT !.pc = "runtime_error"]
       ELSE conn' = [conn EXCEPT !.probes = @ + 1, !.polls = @ + 1,
                                 !.pc = IF is_port_open(conn, conn.probes + 1)
                                        THEN "returned" ELSE "sleep"]
    /\ UNCHANGED <<main, env, fn, arg, ret, runs, starter, reruns>>

\* Line 145: time.sleep(0.5)
ConnSleep ==
    /\ conn.pc = "sleep"
    /\ conn' = [conn EXCEPT !.sleeps = @ + 1, !.pc = "poll"]
    /\ UNCHANGED <<main, env, fn, arg, ret, runs, starter, reruns>>

ConnectorNext ==
    \/ ConnProbe
    \/ ConnLaunch
    \/ ConnPoll
    \/ ConnSleep

Connector == ConnectorInit /\ [][ConnectorNext]_vars

(***************************************************************************)
(* Runs: the Start button and the workers it spawns.  Of run_send_loop     *)
(* only the writes of the running flag and the end of the thread are kept: *)
(* runs[k] is the k-th worker's position and the running flag of the       *)
(* SessionState it was given.  The dashboard's session is the SessionState *)
(* of the last worker spawned (a fresh one before the first Start).        *)
(***************************************************************************)
\* session.is_running, as the dashboard script reads it.
SessionIsRunning ==
    IF runs = <<>> THEN SessionState.is_running
    ELSE runs[Len(runs)].is_running

\* A script run with no click on Start: the auto-refresh of lines 172-174,
\* or another widget.
StartRerun ==
    /\ starter.pc = "shown"
    /\ starter' = [starter EXCEPT !.pc = "draw", !.click = FALSE]
    /\ UNCHANGED <<main, env, fn, arg, ret, conn, runs, reruns>>

\* A click on Start, which the page shows enabled: a script run starts.
ClickStart ==
    /\ starter.pc = "shown"
    /\ starter.enabled
    /\ Len(runs) < MaxRuns
    /\ starter' = [starter EXCEPT !.pc = "draw", !.click = TRUE]
    /\ UNCHANGED <<main, env, fn, arg, ret, conn, runs, reruns>>

\* dashboard.py 82-83: start_disabled = session.is_running, and the button,
\* which returns True in the script run its click started.
DrawStart ==
    /\ starter.pc = "draw"
    /\ starter' = [starter EXCEPT !.enabled = ~SessionIsRunning,
                                  !.pc = IF starter.click THEN "handler"
                                         ELSE "shown"]
    /\ UNCHANGED <<main, env, fn, arg, ret, conn, runs, reruns>>

\* dashboard.py 84-98: a fresh SessionState, a thread started on it, and
\* st.rerun().
StartSending ==
    /\ starter.pc = "handler"
    /\ runs' = Append(runs, [pc |-> "spawned",
                             is_running |-> SessionState.is_running])
    /\ starter' = [starter EXCEPT !.pc = "draw", !.click = FALSE]
    /\ UNCHANGED <<main, env, fn, arg, ret, conn, reruns>>

\* Lines 102-109: the clamp, then state.is_running = True.
WorkerBegin(k) ==
    /\ runs[k].pc = "spawned"
    /\ runs' = [runs EXCEPT ![k].is_running = TRUE, ![k].pc = "image_check"]
    /\ UNCHANGED <<main, env, fn, arg, ret, conn, starter, reruns>>

\* Lines 111-117: Path(None) raises; a missing image clears the flag and
\* returns.
WorkerImageCheck(k) ==
    /\ runs[k].pc = "image_check"
    /\ runs' = CASE env.IMAGE_PATH = "unset" ->
                      [runs EXCEPT ![k].pc = "crashed"]
                 [] env.IMAGE_PATH = "missing" ->
                      [runs EXCEPT ![k].is_running = FALSE,
                                   ![k].pc = "returned"]
                 [] OTHER -> [runs EXCEPT ![k].pc = "working"]
    /\ UNCHANGED <<main, env, fn, arg, ret, conn, starter, reruns>>

\* Lines 122-233: setup and the send loop, which leave the try with the
\* flag cleared (no pending contact, lines 151-154) or still set.
WorkerWork(k) ==
    /\ runs[k].pc = "working"
    /\ \E no_pending \in BOOLEAN :
          runs' = [runs EXCEPT ![k].pc = "finally",
                               ![k].is_running = IF no_pending THEN FALSE
                                                 ELSE @]
    /\ UNCHANGED <<main, env, fn, arg, ret, conn, starter, reruns>>

\* Lines 236-238: the flag and the current target are cleared.
WorkerFinally(k) ==
    /\ runs[k].pc = "finally"
    /\ runs' = [runs EXCEPT ![k].is_running = FALSE, ![k].pc = "saving"]
    /\ UNCHANGED <<main, env, fn, arg, ret, conn, starter, reruns>>

\* Lines 239-243: _save_log writes the file, the function returns and the
\* thread ends.
WorkerSaveLog(k) ==
    /\ runs[k].pc = "saving"
    /\ runs' = [runs EXCEPT ![k].pc = "returned"]
    /\ UNCHANGED <<main, env, fn, arg, ret, conn, starter, reruns>>

RunsInit ==
    /\ MainIdle
    /\ env \in Envs
    /\ OthersIdle

RunsNext ==
    \/ StartRerun
    \/ ClickStart
    \/ DrawStart
    \/ StartSending
    \/ \E k \in DOMAIN runs : WorkerBegin(k)
    \/ \E k \in DOMAIN runs : WorkerImageCheck(k)
    \/ \E k \in DOMAIN runs : WorkerWork(k)
    \/ \E k \in DOMAIN runs : WorkerFinally(k)
    \/ \E k \in DOMAIN runs : WorkerSaveLog(k)

Runs == RunsInit /\ [][RunsNext]_vars

(***************************************************************************)
(* Reruns: calls of run_send_loop against one sheet.  Nothing in           *)
(* run_send_loop keeps two calls apart: a call may begin while another is  *)
(* anywhere in its loop.  reruns.sheet is the sheet, reruns.written the    *)
(* rows a write_status call of any run has written (1 or 0), reruns.w[k]   *)
(* the k-th call: its position, the contacts it fetched, the sheet as its  *)
(* fetch read it (at_fetch), the rows written before its fetch             *)
(* (written_before), the rows it invoked the driver for (attempted) and    *)
(* what the driver returned or raised for the contact in progress.         *)
(***************************************************************************)

\* The rows of the sheet the runs share: those of RowSamples, and a pending
\* row whose status cell holds a blank.
RerunRowSamples ==
    RowSamples
    \cup {[status |-> <<" ">>, sort_name |-> NameSample,
           phone |-> <<"+", "1", " ", "2">>]}

RerunSheets == UNION {[1..n -> RerunRowSamples] : n \in 0..MaxRows}

RerunsInit ==
    /\ MainIdle
    /\ env = DefaultEnv
    /\ fn = "none"
    /\ arg = <<>>
    /\ ret = <<>>
    /\ conn = NoConn
    /\ runs = <<>>
    /\ starter = FreshStart
    /\ \E s \in RerunSheets : reruns = [NoReruns EXCEPT !.sheet = s]

\* Lines 146-160: a run fetches the pending contacts of the sheet as it is
\* now; with none pending it returns (lines 151-154).
RerunStart ==
    /\ Len(reruns.w) < MaxRuns
    /\ \E limit \in 1..MaxCount :
          LET got == get_pending_contacts(reruns.sheet, limit)
          IN reruns' = [reruns EXCEPT
                           !.w = Append(@,
                                    [pc |-> IF got = <<>> THEN "over"
                                            ELSE "loop",
                                     contacts |-> got,
                                     at_fetch |-> reruns.sheet,
                                     i |-> 0,
                                     written_before |-> reruns.written,
                                     attempted |-> <<>>,
                                     outcome |-> "none"])]
    /\ UNCHANGED <<main, env, fn, arg, ret, conn, runs, starter>>

\* Lines 174-187 for the next contact: the driver is invoked, and returns
\* or raises.  The status cell of the row is as it was.
RerunInvoke(k) ==
    /\ reruns.w[k].pc = "loop"
    /\ reruns.w[k].i < Len(reruns.w[k].contacts)
    /\ \E outcome \in DriverOutcomes :
          reruns' = [reruns EXCEPT
                        !.w[k].attempted =
                            Append(@, reruns.w[k].contacts[reruns.w[k].i + 1]
                                          .row_number),
                        !.w[k].outcome = outcome,
                        !.w[k].pc = "invoked"]
    /\ UNCHANGED <<main, env, fn, arg, ret, conn, runs, starter>>

\* Lines 189-217: the write-back is made (or raises), and the loop goes on
\* or is left.
RerunWrite(k) ==
    /\ reruns.w[k].pc = "invoked"
    /\ \E write_raises \in BOOLEAN, probe \in Probes :
          LET run == reruns.w[k]
              row == run.contacts[run.i + 1].row_number
              e == AttemptEffect(SessionState, row, [outcome |-> run.outcome],
                                 write_raises, is_whatsapp_connected(probe))
              wrote == e.write # <<>> /\ ~e.write[1].raised
          IN reruns' = [reruns EXCEPT
                           !.sheet = ApplyWrites(@, e.write),
                           !.written = IF wrote THEN @ \cup {row} ELSE @,
                           !.w[k].outcome = "none",
                           !.w[k].i = IF e.pc = "delay_check" THEN @ + 1
                                      ELSE @,
                           !.w[k].pc = IF e.pc = "delay_check" THEN "loop"
                                       ELSE "over"]
    /\ UNCHANGED <<main, env, fn, arg, ret, conn, runs, starter>>

\* Lines 164-167 and 235-243: the run ends after its last contact, or
\* earlier when a stop is requested.
RerunEnd(k) ==
    /\ reruns.w[k].pc = "loop"
    /\ \E should_stop \in BOOLEAN :
          reruns.w[k].i >= Len(reruns.w[k].contacts) \/ should_stop
    /\ reruns' = [reruns EXCEPT !.w[k].pc = "over"]
    /\ UNCHANGED <<main, env, fn, arg, ret, conn, runs, starter>>

RerunsNext ==
    \/ RerunStart
    \/ \E k \in DOMAIN reruns.w : RerunInvoke(k)
    \/ \E k \in DOMAIN reruns.w : RerunWrite(k)
    \/ \E k \in DOMAIN reruns.w : RerunEnd(k)

Reruns == RerunsInit /\ [][RerunsNext]_vars

(***************************************************************************)
(* Properties.                                                             *)
(***************************************************************************)
RunOver == pc \in {"returned", "crashed"}

\* The worker is inside lines 182-220 for a contact.
InAttempt == pc \in {"sending", "write_back", "record", "append", "probe"}

\* The write_status calls of the run for a row.
WritesFor(row) == {k \in DOMAIN writes : writes[k].row = row}

\* The results with the given success flag.
CountResults(rs, success) ==
    Cardinality({k \in DOMAIN rs : rs[k].success = success})

SendErrors == {"ContactNotFoundError", "SendTimeoutError", "WhatsAppSendError"}

\* The exceptions of a delivery attempt that are no WhatsAppSendError.
IsUnexpected(outcome) == outcome \notin SendErrors \cup {"ok", "none"}

\* The waits of send_whatsapp_message, named by what is waited for.
WaitBounds ==
    {"chat_load", "attach_button", "photos_and_videos", "caption_input",
     "send_button", "verify"}

\* C1: for the attempt just finished, a ContactNotFound, SendTimeout or
\* WhatsAppSendError from the driver comes with exactly one write-back call
\* for the row, with failure status, and failed one higher; a success comes
\* with exactly one write-back call with success status, sent one higher and
\* failed unchanged.  (Fails when write_status raises.)
C1_WriteBackAndCounters ==
    last.row # 0 =>
        /\ last.outcome \in SendErrors =>
              /\ Cardinality(WritesFor(last.row)) = 1
              /\ \A k \in WritesFor(last.row) : ~writes[k].success
              /\ state.failed = last.failed0 + 1
              /\ state.sent = last.sent0
        /\ last.outcome = "ok" =>
              /\ Cardinality(WritesFor(last.row)) = 1
              /\ \A k \in WritesFor(last.row) : writes[k].success
              /\ state.sent = last.sent0 + 1
              /\ state.failed = last.failed0

\* The statement of C1 for the attempts whose write_status call returned:
\* the dispatch of lines 189-204 itself is as C1 says.
WriteBackAndCountersIfWritten ==
    (last.row # 0 /\ last.write # "raised") =>
        /\ last.outcome \in SendErrors =>
              /\ Cardinality(WritesFor(last.row)) = 1
              /\ last.write = "0"
              /\ state.failed = last.failed0 + 1
              /\ state.sent = last.sent0
        /\ last.outcome = "ok" =>
              /\ Cardinality(WritesFor(last.row)) = 1
              /\ last.write = "1"
              /\ state.sent = last.sent0 + 1
              /\ state.failed = last.failed0

\* C2: once the worker has read the stop flag as set (at the head of an
\* iteration, in the delay or in the paused wait), it is never inside a
\* delivery attempt.
C2_NoAttemptOnceStopSeen == ~(stop_seen # "none" /\ pc = "sending")

\* C3: after a stop requested during the inter-message delay, at most one
\* more one-second sleep finishes and no second one begins, no delivery
\* attempt starts, no result is recorded, and the worker only leaves the
\* delay for the head of the loop and the exit.
C3_StopInDelayHalts ==
    stop_mark.pc # "none" =>
        /\ stop_mark.sleeps <= 1
        /\ pc = "delay_sleep" =>
              (stop_mark.pc = "delay_sleep" /\ stop_mark.sleeps = 0)
        /\ Len(attempts) = stop_mark.attempts
        /\ Len(state.results) = stop_mark.results
        /\ pc \in {"delay_test", "delay_sleep", "loop_head", "finally",
                   "save_log", "summary", "returned"}

\* C3's case: stop came during a sleep of the delay, that sleep finished, and
\* the run ended with a contact left unattempted.
C3_Witness ==
    /\ stop_mark.pc = "delay_sleep"
    /\ stop_mark.sleeps = 1
    /\ pc = "returned"
    /\ Len(attempts) < Len(contacts)

\* C4: once the fetch has returned no contact, the worker is on its way out,
\* the running flag is clear, sent and failed are 0, and neither the driver
\* nor write_status has been or will be called.
C4_ZeroPendingEndsClean ==
    (fetched /\ Len(contacts) = 0) =>
        /\ pc \in {"finally", "save_log", "summary", "returned"}
        /\ ~state.is_running
        /\ state.sent = 0
        /\ state.failed = 0
        /\ attempts = <<>>
        /\ writes = <<>>

\* C4's case: a run started for at least one message found nothing pending
\* and has returned.
C4_Witness ==
    /\ fetched
    /\ Len(contacts) = 0
    /\ requested >= 1
    /\ pc = "returned"
    /\ send_log.written

\* C5: the limit passed to get_pending_contacts is min(count, the daily
\* ceiling), and a run neither fetches nor attempts more contacts than the
\* ceiling.
C5_FetchLimitClamped ==
    /\ fetch_limit # -1 =>
          fetch_limit = Min(requested, env.DAILY_MESSAGE_LIMIT)
    /\ Len(contacts) <= env.DAILY_MESSAGE_LIMIT
    /\ Len(attempts) <= env.DAILY_MESSAGE_LIMIT

\* C5's case: more was requested than the ceiling allows, more rows than the
\* ceiling are pending, and the run attempted exactly the ceiling.
C5_Witness ==
    /\ requested > env.DAILY_MESSAGE_LIMIT
    /\ Len(get_pending_contacts(sheet, requested)) + Len(attempts) > env.DAILY_MESSAGE_LIMIT
    /\ fetched
    /\ Len(attempts) = env.DAILY_MESSAGE_LIMIT
    /\ pc = "returned"

\* C6: when the run is over, on whatever path, the running flag is clear and
\* the current-target fields are None.  (Fails when IMAGE_PATH is unset.)
C6_FlagsClearedWhenRunOver ==
    RunOver =>
        /\ ~state.is_running
        /\ state.current_contact = None
        /\ state.current_phone = None

\* C7: _save_log is called at most once in a run, and exactly once by the
\* time run_send_loop has returned.  (Fails when the image file is missing.)
C7_LogSavedOncePerRun ==
    /\ saves <= 1
    /\ pc = "returned" => saves = 1

\* C8: in the saved log, sent is the number of results with success true and
\* failed the number with success false.  (Fails on the disconnect halt.)
C8_LogCountsMatchOutcomes ==
    send_log.written =>
        /\ send_log.sent = CountResults(send_log.results, TRUE)
        /\ send_log.failed = CountResults(send_log.results, FALSE)

\* C9: for the attempt just finished, an exception that is no
\* WhatsAppSendError comes with no write-back for the row and with a
\* connectivity probe; when the probe finds the QR code or the disconnect
\* text (or raises) the worker is leaving the loop, otherwise the contact is
\* counted failed, its result (success false) is the last one recorded and
\* the worker goes on to the delay and the next contact.
C9_UnexpectedProbesConnectivity ==
    (last.row # 0 /\ IsUnexpected(last.outcome)) =>
        /\ last.write = "none"
        /\ WritesFor(last.row) = {}
        /\ last.probed
        /\ IF last.connected
           THEN /\ pc = "delay_check"
                /\ state.failed = last.failed0 + 1
                /\ state.sent = last.sent0
                /\ state.results # <<>>
                /\ state.results[Len(state.results)] =
                      SendResult(last.row, FALSE)
           ELSE /\ pc = "finally"
                /\ attempts[Len(attempts)] = last.row

\* C9's case: a first contact failed unexpectedly with the connection intact
\* and was recorded without a write-back, a second one failed unexpectedly
\* with the connection lost, and the loop is being left.
C9_Witness ==
    /\ last.row # 0
    /\ last.outcome = "TimeoutException"
    /\ last.probed
    /\ ~last.connected
    /\ pc = "finally"
    /\ Len(state.results) = 1
    /\ ~state.results[1].success
    /\ writes = <<>>
    /\ Len(attempts) = 2

\* C10: a call of send_whatsapp_message that ended because one of its waits
\* elapsed ended in SendTimeoutError.  (Fails for the waits of steps 3-7.)
C10_ElapsedWaitIsSendTimeout ==
    (fn = "send_whatsapp_message" /\ ret.at \in WaitBounds) =>
        ret.outcome = "SendTimeoutError"

\* The steps of send_whatsapp_message that follow the detection of the chat.
LaterSteps ==
    {"chat_loaded", "attach_click", "photos_click", "inject_file",
     "inject_caption", "send_click", "verify"}

\* The invalid-number indicator is on the page at a poll step 2 reaches:
\* within the polls of the timeout and not after the poll that finds the
\* chat (the popup is looked for first in each poll).
PopupDetected(dom) ==
    /\ dom.raises_at # "navigate"
    /\ dom.popup_at # 0
    /\ dom.popup_at <= ChatPolls(SEND_TIMEOUT)
    /\ dom.chat_at = 0 \/ dom.popup_at <= dom.chat_at

\* The outcomes the send loop is given are those of the driver on the
\* model's pages.
DriverOutcomesAreTheDrivers ==
    DriverOutcomes = {r.outcome : r \in DriverResults}

\* C11: a call of send_whatsapp_message in which a poll detects the
\* invalid-number indicator ends in ContactNotFoundError, its last step the
\* dismissal (the click on OK, else the Escape key), with no later step
\* executed.  (Fails when the dismissal raises: the exception is swallowed
\* and the polling goes on.)
C11_PopupEndsInContactNotFound ==
    (fn = "send_whatsapp_message" /\ PopupDetected(arg.dom)) =>
        /\ ret.outcome = "ContactNotFoundError"
        /\ ret.steps[Len(ret.steps)] \in {"popup_ok_click", "popup_escape"}
        /\ \A k \in DOMAIN ret.steps : ret.steps[k] \notin LaterSteps

\* The statement of C11 for the calls whose dismissal does not raise: the
\* last step is the click on OK, or the Escape key when no OK button is
\* clickable or the click timed out.
PopupEndsInContactNotFoundIfDismissed ==
    (/\ fn = "send_whatsapp_message"
     /\ PopupDetected(arg.dom)
     /\ ~dismiss_popup(arg.dom).raised) =>
        /\ ret.outcome = "ContactNotFoundError"
        /\ ret.steps[Len(ret.steps)] =
              (IF /\ arg.dom.clickable["popup_ok_button"] # {}
                  /\ arg.dom.ok_click = "ok"
               THEN "popup_ok_click" ELSE "popup_escape")
        /\ \A k \in DOMAIN ret.steps : ret.steps[k] \notin LaterSteps

\* C12: the rows the driver was invoked for are the rows of the first
\* contacts fetched, in fetch order, each once: no contact is attempted a
\* second time, whatever its attempt ended in.
C12_EachContactAttemptedOnceInOrder ==
    /\ Len(attempts) <= Len(contacts)
    /\ \A k \in DOMAIN attempts : attempts[k] = contacts[k].row_number
    /\ \A j, k \in DOMAIN attempts : j # k => attempts[j] # attempts[k]

\* C12's case: the first contact's attempt failed and was recorded, and the
\* driver has been invoked for the second contact, not for the first again.
C12_Witness ==
    /\ Len(attempts) = 2
    /\ Len(state.results) >= 1
    /\ ~state.results[1].success
    /\ state.results[1].row = attempts[1]
    /\ attempts[2] # attempts[1]
    /\ pc = "sending"

\* The locators of the call Calls made for which the predicate the call
\* waits for holds.
ResolverHits ==
    (IF fn = "find_element_with_fallbacks"
     THEN arg.dom.present[arg.selector_key]
     ELSE arg.dom.clickable[arg.selector_key])
    \cap (1..SELECTORS[arg.selector_key])

\* C13: a resolver call tries the target's locators in declared order,
\* 1, 2, ...; when some locator satisfies the predicate it returns the
\* element of the first such locator and has tried no later one; it fails
\* only when every locator failed, after trying them all, and the failure
\* names the target and holds the wait error of the last locator.
C13_ResolverFirstLocatorInOrder ==
    fn \in {"find_element_with_fallbacks", "find_clickable_with_fallbacks"} =>
        LET n == SELECTORS[arg.selector_key]
        IN /\ \A k \in DOMAIN ret.tried : ret.tried[k] = k
           /\ IF ResolverHits # {}
              THEN /\ ret.found
                   /\ ret.index = SetMin(ResolverHits)
                   /\ Len(ret.tried) = ret.index
              ELSE /\ ~ret.found
                   /\ Len(ret.tried) = n
                   /\ ret.error = "TimeoutException"
                   /\ ret.target = arg.selector_key
                   /\ ret.last_exception = n

\* C13's case: the attachment button is clickable at its third and fifth
\* locators only, and the call returned the third's element after the first
\* two timed out.
C13_Witness ==
    /\ fn = "find_clickable_with_fallbacks"
    /\ arg.selector_key = "attach_button"
    /\ arg.dom.clickable["attach_button"] = {3, 5}
    /\ ret.found
    /\ ret.index = 3
    /\ ret.tried = <<1, 2, 3>>

\* The workers spawned by Start whose thread has not ended.
ActiveRuns == {k \in DOMAIN runs : runs[k].pc \notin {"returned", "crashed"}}

\* C14: of the workers the Start button has spawned, at most one has not
\* finished.  (Fails: the button is enabled again as soon as the running
\* flag of the current SessionState is clear, which it is before the worker
\* reaches line 107 and from line 153 or 236 until the worker ends.)
C14_AtMostOneActiveRun == Cardinality(ActiveRuns) <= 1

\* The fields of a SessionState the worker writes, and those the dashboard
\* writes.
WorkerFields(st) ==
    <<st.total, st.sent, st.failed, st.remaining, st.current_contact,
      st.current_phone, st.is_running, st.results>>
ControlFields(st) == <<st.is_paused, st.should_stop>>

\* C15: a step of the worker (every one moves pc) leaves the pause flag and
\* the stop flag of the SessionState as they are; a step of the dashboard's
\* Stop, Pause and Resume buttons (none moves pc) leaves the counters, the
\* results, the current target, the running flag and the log file as they
\* are.
C15_SingleWriterPerFieldGroup ==
    [][/\ (pc' # pc /\ pc # "idle") =>
             ControlFields(state') = ControlFields(state)
       /\ (pc' = pc) =>
             /\ WorkerFields(state') = WorkerFields(state)
             /\ send_log' = send_log]_vars

\* C15's case: a run in which both sides wrote: it was paused and stopped
\* from the dashboard, and the worker recorded a result and cleared the
\* running flag.
C15_Witness ==
    /\ pc = "returned"
    /\ state.is_paused
    /\ state.should_stop
    /\ Len(state.results) >= 1
    /\ ~state.is_running
    /\ send_log.written

\* C16: in a call of ensure_chrome_ready the browser is launched at most
\* once, and only after the initial probe found the port closed; with the
\* port open at the probe the call returns after that one probe, nothing
\* launched or polled; the polls come after the launch, one sleep apart,
\* and are at most launch_timeout * 2; the call fails with RuntimeError
\* exactly after launch_timeout * 2 polls that all found the port closed,
\* and returns only after a probe or poll that found it open.
C16_ConnectorLaunchesOnceAndPollsBounded ==
    conn.pc # "none" =>
        /\ conn.launches <= 1
        /\ conn.launches = 1 => (conn.probes >= 1 /\ ~is_port_open(conn, 1))
        /\ (conn.probes >= 1 /\ is_port_open(conn, 1)) =>
              /\ conn.pc = "returned"
              /\ conn.probes = 1
              /\ conn.launches = 0
              /\ conn.polls = 0
        /\ conn.polls <= conn.launch_timeout * 2
        /\ conn.polls > 0 => conn.launches = 1
        /\ conn.sleeps <= conn.polls
        /\ conn.polls <= conn.sleeps + 1
        /\ conn.pc = "runtime_error" =>
              /\ conn.launches = 1
              /\ conn.polls = conn.launch_timeout * 2
              /\ \A p \in 1..conn.probes : ~is_port_open(conn, p)
        /\ conn.pc = "returned" => is_port_open(conn, conn.probes)

\* C16's case: with the default launch timeout the probe failed, the browser
\* was launched once, the port stayed closed for all 30 polls and the call
\* failed.
C16_Witness ==
    /\ conn.pc = "runtime_error"
    /\ conn.launch_timeout = LAUNCH_TIMEOUT
    /\ conn.launches = 1
    /\ conn.polls = 30
    /\ conn.probes = 31

\* What setup ends in when the connector, the tab discovery or the fetch
\* raises.
SetupErrors == {"connector_error", "tab_error", "fetch_error"}

\* C17: once setup has raised, the worker is on its way out: the driver and
\* write_status have not been and will not be called, sent and failed are 0,
\* nothing is recorded; when run_send_loop has returned the running flag is
\* clear and the log has been saved, once, with both counters 0.
C17_SetupErrorAbortsRun ==
    setup \in SetupErrors =>
        /\ pc \in {"finally", "save_log", "summary", "returned"}
        /\ attempts = <<>>
        /\ writes = <<>>
        /\ state.sent = 0
        /\ state.failed = 0
        /\ state.results = <<>>
        /\ pc = "returned" =>
              /\ ~state.is_running
              /\ saves = 1
              /\ send_log.written
              /\ send_log.sent = 0
              /\ send_log.failed = 0
              /\ send_log.results = <<>>

\* C17's case: contacts were pending, the connector raised, and the run has
\* returned with the log saved.
C17_Witness ==
    /\ setup = "connector_error"
    /\ pc = "returned"
    /\ Len(get_pending_contacts(sheet, requested)) >= 1
    /\ send_log.written
    /\ ~state.is_running

SetMax(S) == CHOOSE x \in S : \A y \in S : x >= y

\* A string without its leading and trailing whitespace, by positions.
NonSpace(t) == {k \in DOMAIN t : t[k] \notin SpaceChars}
Blank(t) == NonSpace(t) = {}
Trimmed(t) ==
    IF Blank(t) THEN <<>>
    ELSE SubSeq(t, SetMin(NonSpace(t)), SetMax(NonSpace(t)))

\* The data rows (positions in all_rows[1:]) whose status cell is blank
\* (empty or whitespace only), respectively empty, and whose phone
\* normalizes to a non-empty string.
PendingBlank(rows) ==
    {k \in DOMAIN rows : /\ Blank(rows[k].status)
                         /\ normalize_phone(rows[k].phone) # <<>>}
PendingEmpty(rows) ==
    {k \in DOMAIN rows : /\ rows[k].status = <<>>
                         /\ normalize_phone(rows[k].phone) # <<>>}

\* The data rows the contacts r were made from (the sheet row less the
\* header row).
ReturnedRows(r) == {r[j].row_number - 1 : j \in DOMAIN r}

\* r holds the first limit rows of E (all of E when it has fewer), in row
\* order.
IsFirstOf(r, E, limit) ==
    /\ Len(r) = Min(limit, Cardinality(E))
    /\ ReturnedRows(r) \subseteq E
    /\ \A j \in 1..(Len(r) - 1) : r[j].row_number < r[j + 1].row_number
    /\ \A k \in E \ ReturnedRows(r) : \A q \in ReturnedRows(r) : q < k

\* Each contact of r has a non-empty normalized phone, that of its row, and
\* the sheet row number of its row (data row k is sheet row k + 1).
CarriesRowAndPhone(r, rows) ==
    \A j \in DOMAIN r :
        /\ r[j].row_number \in 2..(Len(rows) + 1)
        /\ r[j].phone_clean # <<>>
        /\ r[j].phone_clean = normalize_phone(rows[r[j].row_number - 1].phone)

\* C18 as stated: get_pending_contacts(limit) returns the first limit data
\* rows, in row order, whose status cell is empty and whose phone normalizes
\* to a non-empty string, each contact with that phone and its sheet row
\* number; no row with a non-empty status is returned.  (Fails for a status
\* cell holding only whitespace: the cell is not empty, the row is returned.)
C18_FetchFirstPendingEmptyStatus ==
    fn = "get_pending_contacts" =>
        /\ IsFirstOf(ret, PendingEmpty(arg.rows), arg.limit)
        /\ CarriesRowAndPhone(ret, arg.rows)
        /\ \A j \in DOMAIN ret : arg.rows[ret[j].row_number - 1].status = <<>>

\* C18, amended: the same with "empty" read after trimming: the status
\* cell is empty or holds only whitespace; no row whose status has a
\* non-whitespace character is returned.
C18_FetchFirstPendingBlankStatus ==
    fn = "get_pending_contacts" =>
        /\ IsFirstOf(ret, PendingBlank(arg.rows), arg.limit)
        /\ CarriesRowAndPhone(ret, arg.rows)
        /\ \A j \in DOMAIN ret : Blank(arg.rows[ret[j].row_number - 1].status)

\* C18's case: the first data row has been written back (status 0), the
\* second has a whitespace-only status and a phone with digits: the fetch
\* returned the second alone, as sheet row 3.
C18_Witness ==
    /\ fn = "get_pending_contacts"
    /\ Len(arg.rows) = 2
    /\ arg.limit = 2
    /\ arg.rows[1].status = <<"0">>
    /\ arg.rows[2].status = <<" ">>
    /\ Len(ret) = 1
    /\ ret[1].row_number = 3
    /\ ret[1].phone_clean = <<"1", "2">>

\* What follows the first comma of a string that has one.
FirstComma(t) == SetMin({k \in DOMAIN t : t[k] = ","})
AfterComma(t) == SubSeq(t, FirstComma(t) + 1, Len(t))

\* C19 as stated: for a sort name with a comma extract_first_name returns
\* the trimmed substring after the first comma; for a comma-free name that
\* is not blank, the name trimmed; for an empty or whitespace-only name,
\* "there".  (Fails for a name with nothing but whitespace after the comma:
\* "there" is returned, not the empty string.)
C19_FirstNameIsTrimmedAfterComma ==
    fn = "extract_first_name" =>
        /\ HasComma(arg.sort_name) =>
              ret = Trimmed(AfterComma(arg.sort_name))
        /\ (~HasComma(arg.sort_name) /\ ~Blank(arg.sort_name)) =>
              ret = Trimmed(arg.sort_name)
        /\ Blank(arg.sort_name) => ret = There

\* C19, amended: for a sort name with a comma the result is the trimmed
\* substring after the first comma when that is not empty, and "there" when
\* it is; the other two cases as stated.
C19_FirstNameAfterCommaOrFallback ==
    fn = "extract_first_name" =>
        /\ HasComma(arg.sort_name) =>
              ret = (IF Blank(AfterComma(arg.sort_name)) THEN There
                     ELSE Trimmed(AfterComma(arg.sort_name)))
        /\ (~HasComma(arg.sort_name) /\ ~Blank(arg.sort_name)) =>
              ret = Trimmed(arg.sort_name)
        /\ Blank(arg.sort_name) => ret = There

\* C19's case: a last name, a comma and a blank: the fallback is returned.
C19_Witness ==
    /\ fn = "extract_first_name"
    /\ arg.sort_name = <<"a", ",", " ">>
    /\ ret = There

\* r is what is left of s when exactly the characters at the positions D
\* are kept, in their order.
KeepsExactly(s, r, D) ==
    /\ Len(r) = Cardinality(D)
    /\ \A j \in DOMAIN r :
          r[j] = s[CHOOSE k \in D : Cardinality({m \in D : m <= k}) = j]

\* C20: normalize_phone returns exactly the digits "0".."9" of its input,
\* in their order and number, every other character removed.  (Fails for a
\* character outside "0".."9" that str.isdigit() accepts: it is kept.)
C20_NormalizeKeepsExactlyTheDigits ==
    fn = "normalize_phone" =>
        KeepsExactly(arg.phone_raw, ret,
                     {k \in DOMAIN arg.phone_raw :
                         arg.phone_raw[k] \in DigitChars})

\* The statement of C20 with "digit" read as str.isdigit() reads it.
NormalizeKeepsExactlyTheIsdigitCharacters ==
    fn = "normalize_phone" =>
        KeepsExactly(arg.phone_raw, ret,
                     {k \in DOMAIN arg.phone_raw : IsDigit(arg.phone_raw[k])})

\* C21: outside a delivery attempt every contact the driver was invoked for
\* has exactly one outcome record, in the order of the attempts, and once the
\* contacts are fetched remaining is the total less the attempts made.
\* (Fails on the disconnect halt of line 213 and when write_status raises in
\* an except clause: the loop is left before line 215.)
C21_OneRecordPerAttempt ==
    ~InAttempt =>
        /\ Len(state.results) = Len(attempts)
        /\ \A k \in DOMAIN attempts : state.results[k].row = attempts[k]
        /\ (fetched /\ contacts # <<>>) =>
               state.remaining = state.total - Len(attempts)

\* C22: the worker leaves the pause loop of lines 169-172 for the attempt,
\* with no stop requested, only by a test that reads the pause flag cleared;
\* a test that reads it set is followed by the one-second sleep, and the sleep
\* by the next test; and an attempt is started only from there.
C22_PausedRunStartsNoAttempt ==
    [][/\ (pc = "pause_test" /\ pc' # pc /\ state.is_paused) =>
              pc' = "pause_sleep"
       /\ (pc = "pause_sleep" /\ pc' # pc /\ ~state.should_stop) =>
              pc' = "pause_test"
       /\ (pc' = "attempt" /\ pc # "attempt" /\ ~state.should_stop) =>
              (pc = "pause_test" /\ ~state.is_paused)
       /\ (pc' = "caption" /\ pc # "caption") => pc = "attempt"
       /\ (pc' = "sending" /\ pc # "sending") => pc = "caption"]_vars

\* C22's case: the second contact is held back by the pause, no stop
\* requested, a sleep of the pause loop in progress.
C22_Witness ==
    /\ pc = "pause_sleep"
    /\ state.is_paused
    /\ ~state.should_stop
    /\ i = 1
    /\ attempts = <<contacts[1].row_number>>

\* C23: with no stop requested and a contact left, the delay loop is entered
\* with max(20, delay + jitter) ticks for a jitter in -5..10, so with at
\* least 20 and at most max(20, delay + 10) ticks; every sleep takes one
\* tick, and with no stop requested the loop is left only with no tick left;
\* after the last contact, or once a stop is requested, no delay is started.
C23_DelayBetweenAttempts ==
    [][/\ (pc = "delay_check" /\ pc' = "delay_test") =>
              /\ i < Len(contacts) - 1 /\ ~state.should_stop
              /\ ticks' \in {Max(MIN_DELAY, delay + j) :
                                j \in JITTER_LOW..JITTER_HIGH}
              /\ ticks' >= MIN_DELAY
              /\ ticks' <= Max(MIN_DELAY, delay + JITTER_HIGH)
       /\ (pc = "delay_check" /\ pc' # pc
             /\ (i >= Len(contacts) - 1 \/ state.should_stop)) =>
              (pc' = "loop_head" /\ ticks' = ticks)
       /\ (pc = "delay_check" /\ pc' # pc
             /\ i < Len(contacts) - 1 /\ ~state.should_stop) =>
              pc' = "delay_test"
       /\ (pc = "delay_sleep" /\ pc' # pc) =>
              (pc' = "delay_test" /\ ticks' = ticks - 1)
       /\ (pc = "delay_test" /\ pc' # pc /\ ticks > 0
             /\ ~state.should_stop) => pc' = "delay_sleep"
       /\ (pc = "delay_test" /\ pc' = "loop_head") =>
              (ticks = 0 \/ state.should_stop)
       /\ (pc' \in {"delay_test", "delay_sleep"} /\ pc # pc') =>
              pc \in {"delay_check", "delay_test", "delay_sleep"}]_vars

\* C23's case: the delay between the first and the second contact, for the
\* largest base delay, slept to its last tick with no stop requested.
C23_Witness ==
    /\ pc = "delay_test"
    /\ ticks = 0
    /\ ~state.should_stop
    /\ stop_mark.pc = "none"
    /\ delay = MaxDelay
    /\ i = 0
    /\ Len(contacts) = 2
    /\ Len(attempts) = 1

\* The steps of a delivery attempt C24 names, in their fixed order.
StepOrder ==
    <<"navigate", "chat_loaded", "attach_click", "photos_click",
      "inject_file", "inject_caption", "send_click", "verify">>

\* The steps of StepOrder among the steps executed.
NamedSteps(steps) ==
    SelectSeq(steps, LAMBDA s : \E k \in DOMAIN StepOrder : StepOrder[k] = s)

\* How many steps of StepOrder have been executed when the attempt fails at
\* a step or at a wait: a click or injection that raises was executed, an
\* element that resolves at no locator stops the attempt before its step.
ExecutedAtFailure ==
    [navigate |-> 1, chat_load |-> 1, invalid_phone_popup |-> 1,
     attach_button |-> 2, attach_click |-> 3, photos_and_videos |-> 3,
     photos_click |-> 4, inject_file |-> 5, caption_input |-> 5,
     inject_caption |-> 6, send_button |-> 6, send_click |-> 7, verify |-> 7]

\* Every step of the attempt finds what it needs on the page.
PageAllowsSend(dom) ==
    /\ dom.raises_at = "none"
    /\ dom.chat_at \in 1..ChatPolls(SEND_TIMEOUT)
    /\ \A k \in ClickTargets : dom.clickable[k] \cap (1..SELECTORS[k]) # {}
    /\ \A k \in PresenceTargets : dom.present[k] \cap (1..SELECTORS[k]) # {}

\* The calls the polls of step 2 make besides finding the message input.
PollingCalls == {"popup_ok_click", "popup_escape", "continue_click"}

\* The clicks on the continue-to-chat prompt among the steps executed.
ContinueClicks(steps) == {k \in DOMAIN steps : steps[k] = "continue_click"}

\* The polls step 2 makes on a page: up to the first poll that raises for the
\* popup or finds the message input, all of them if there is none.
PollsMade(dom) ==
    LET ending == {k \in 1..ChatPolls(SEND_TIMEOUT) :
                    \/ PopupVisible(dom, k) /\ ~dismiss_popup(dom).raised
                    \/ dom.chat_at # 0 /\ k >= dom.chat_at}
    IN IF ending = {} THEN 1..ChatPolls(SEND_TIMEOUT)
       ELSE 1..SetMin(ending)

\* The polls among them that reach lines 252-260 with the prompt on the page:
\* from the poll at which it appears to the first click that returns.
PollsSeeingPrompt(dom) ==
    {k \in PollsMade(dom) :
        /\ dom.prompt_at # 0
        /\ k >= dom.prompt_at
        /\ dom.prompt_click = "ok" => k = dom.prompt_at
        /\ ~(PopupVisible(dom, k) /\ ~dismiss_popup(dom).raised)}

\* C24: a call of send_whatsapp_message executes navigate first, then the
\* calls of the polls of step 2 (dismissals of the popup, one click on the
\* continue-to-chat prompt for every poll that sees it, none of them after
\* the chat is detected), and the steps it executed of the fixed order
\* navigate, chat detected, attachment click, media click, file injection,
\* caption injection, send click, verification are an initial part of that
\* order (so the send click never comes before the caption injection); the
\* call returns success exactly when all of them were executed, which needs
\* every step to find its element on the page; a call that fails has
\* executed nothing after the step it failed at, and it fails at one of the
\* steps of the order: a click on the prompt that raises ends neither the
\* polling nor the call.
C24_SuccessAfterAllStepsInOrder ==
    fn = "send_whatsapp_message" =>
        LET done == NamedSteps(ret.steps)
        IN /\ ret.steps[1] = "navigate"
           /\ \A k \in DOMAIN ret.steps :
                 /\ ret.steps[k] \in PollingCalls \/ ret.steps[k] = done[
                       Cardinality({j \in 1..k :
                                       ret.steps[j] \notin PollingCalls})]
                 /\ ret.steps[k] \in PollingCalls =>
                       \A j \in 1..(k - 1) :
                           ret.steps[j] \in PollingCalls \cup {"navigate"}
           /\ Cardinality(ContinueClicks(ret.steps)) =
                 (IF arg.dom.raises_at = "navigate" THEN 0
                  ELSE Cardinality(PollsSeeingPrompt(arg.dom)))
           /\ done = SubSeq(StepOrder, 1, Len(done))
           /\ ret.outcome = "ok" <=> done = StepOrder
           /\ ret.outcome = "ok" => PageAllowsSend(arg.dom)
           /\ \A k \in DOMAIN done :
                 done[k] = "send_click" =>
                     \E j \in 1..(k - 1) : done[j] = "inject_caption"
           /\ ret.outcome # "ok" =>
                 /\ ret.at \in DOMAIN ExecutedAtFailure
                 /\ Len(done) = ExecutedAtFailure[ret.at]
                 /\ done # <<>>
                 /\ ret.steps[Len(ret.steps)] \in PollingCalls
                       => ret.at \in {"invalid_phone_popup", "chat_load"}

\* C24's case: a call that returns success on a page that shows the
\* continue-to-chat prompt from the second poll on, with a click that raises
\* every time, and the chat at the last poll: the prompt was clicked in
\* every poll from the second one, and all the steps followed in order.
C24_Witness ==
    /\ fn = "send_whatsapp_message"
    /\ ret.outcome = "ok"
    /\ arg.dom.prompt_at = 2
    /\ arg.dom.prompt_click = "Exception"
    /\ arg.dom.chat_at = ChatPolls(SEND_TIMEOUT)
    /\ Cardinality(ContinueClicks(ret.steps)) = ChatPolls(SEND_TIMEOUT) - 1
    /\ NamedSteps(ret.steps) = StepOrder

\* The click on the continue-to-chat prompt is no step of the order: when it
\* raises, the polling goes on (lines 259-260) and a page that allows the
\* send is sent to.
RaisingContinueClickKeepsPolling ==
    (/\ fn = "send_whatsapp_message"
     /\ arg.dom.prompt_at # 0
     /\ arg.dom.prompt_click = "Exception"
     /\ arg.dom.popup_at = 0
     /\ PageAllowsSend(arg.dom)) => ret.outcome = "ok"

\* C25: a resolver call with wait bound T that fails has waited at most T
\* in total across the target's locators.  (Fails: every locator gets a
\* WebDriverWait of the full bound, so a target with n locators fails after
\* n times T.)
C25_ResolverSharesTimeoutBudget ==
    (/\ fn \in {"find_element_with_fallbacks",
                "find_clickable_with_fallbacks"}
     /\ ~ret.found) => ret.waited <= arg.timeout

\* C26: once the contacts are fetched, at every head of the send loop, at
\* the finally block and when the run has ended, sent + failed + remaining
\* is total and remaining is not negative.  (Fails on the disconnect halt:
\* line 208 counts the failure and line 213 leaves the loop before line 217
\* decrements remaining.)
C26_CountersAddUpToTotal ==
    (fetched /\ pc \in {"loop_head", "finally", "save_log", "summary",
                        "returned"}) =>
        /\ state.sent + state.failed + state.remaining = state.total
        /\ state.remaining >= 0

\* C27: a contact whose delivery attempt returned success is not counted in
\* failed, and its record, if one is appended, has success = true, also when
\* the write-back raises.  (Fails: a write_status that raises at line 189 is
\* caught at line 206, which counts the contact as failed.)
C27_SuccessNeverCountedFailed ==
    (last.row # 0 /\ last.outcome = "ok") =>
        /\ state.failed = last.failed0
        /\ last.appended =>
               state.results[Len(state.results)] = SendResult(last.row, TRUE)

\* C28: when the write-back raises for a contact, a record for the contact
\* is appended and the contact is counted exactly once, and unless the
\* connectivity probe reports a disconnect the loop goes on to the delay
\* check.  (Fails when write_status raises in an except clause: the exception
\* leaves the loop for line 232 with nothing recorded or counted.)
C28_WriteBackFailureStaysContactScoped ==
    (last.row # 0 /\ last.write = "raised") =>
        /\ state.sent + state.failed = last.sent0 + last.failed0 + 1
        /\ (~last.probed \/ last.connected) =>
               /\ last.appended
               /\ state.results[Len(state.results)].row = last.row
               /\ pc = "delay_check"

\* C29: no contact a run fetches is a row that a write-back made before the
\* fetch wrote 1 or 0 to, so no such row is attempted again; the rows a run
\* attempts are the first of those it fetched, in increasing row order, each
\* at most once, and the status cell of each was empty (after trimming, as
\* get_pending_contacts reads it) when the run fetched.
C29_WrittenRowsNeverPendingAgain ==
    \A k \in DOMAIN reruns.w :
        LET run == reruns.w[k]
        IN /\ \A j \in DOMAIN run.contacts :
                 run.contacts[j].row_number \notin run.written_before
           /\ Len(run.attempted) <= Len(run.contacts)
           /\ \A j \in DOMAIN run.attempted :
                 /\ run.attempted[j] = run.contacts[j].row_number
                 /\ run.attempted[j] \notin run.written_before
                 /\ Strip(run.at_fetch[run.attempted[j] - 1].status) = <<>>
                 /\ \A q \in 1..(j - 1) : run.attempted[q] < run.attempted[j]

\* C29's case: the first run has ended; the second run, which fetched after
\* the first run wrote a failure status to row 2, attempts row 3.
C29_Witness ==
    /\ Len(reruns.w) = 2
    /\ reruns.w[1].pc = "over"
    /\ reruns.w[1].attempted = <<2>>
    /\ reruns.w[2].written_before = {2}
    /\ reruns.sheet[1].status = <<"0">>
    /\ reruns.w[2].attempted = <<3>>

\* No row is handed to the driver by two runs.  Violated: a run that fetches
\* while another run is between its fetch and its write-back for a row gets
\* that row too, and the contact is sent the message twice.
NoRowAttemptedByTwoRuns ==
    \A k1, k2 \in DOMAIN reruns.w :
        k1 # k2 =>
            \A j1 \in DOMAIN reruns.w[k1].attempted :
                \A j2 \in DOMAIN reruns.w[k2].attempted :
                    reruns.w[k1].attempted[j1] # reruns.w[k2].attempted[j2]

\* The pause flag is not left set forever without a stop request.
PauseNotLeftSet == <>[](~state.is_paused) \/ <>state.should_stop

\* C30: if the pause flag is not left set forever without a stop request,
\* a run that was started eventually ends with the running flag cleared.
\* (Fails for an unset IMAGE_PATH: Path(None) at line 114 raises outside the
\* try/finally, and the run is over with is_running still True.)
C30_RunTerminatesWithFlagCleared ==
    PauseNotLeftSet =>
        ((pc = "spawned") ~> (RunOver /\ ~state.is_running))

\* The longest delay loop of the model, in ticks.
MostTicks == Max(MIN_DELAY, MaxDelay + JITTER_HIGH)

\* A measure of the work a run has left: the contacts not yet handled, the
\* position within the current contact's iteration, the ticks of its delay.
WorkLeft ==
    LET per_contact == 2 * MostTicks + 13
        left == IF Len(contacts) > i THEN Len(contacts) - i ELSE 0
        within ==
            CASE pc = "loop_head" -> 2 * MostTicks + 12
              [] pc = "pause_test" -> 2 * MostTicks + 11
              [] pc = "pause_sleep" -> 2 * MostTicks + 10
              [] pc = "attempt" -> 2 * MostTicks + 9
              [] pc = "caption" -> 2 * MostTicks + 8
              [] pc = "sending" -> 2 * MostTicks + 7
              [] pc = "write_back" -> 2 * MostTicks + 6
              [] pc = "record" -> 2 * MostTicks + 5
              [] pc \in {"append", "probe"} -> 2 * MostTicks + 4
              [] pc = "delay_check" -> 2 * MostTicks + 3
              [] pc = "delay_test" -> 2 * ticks + 2
              [] pc = "delay_sleep" -> 2 * ticks + 1
              [] OTHER -> 0
    IN CASE pc = "spawned" -> per_contact * (MaxRows + 2) + 6
         [] pc = "image_check" -> per_contact * (MaxRows + 2) + 5
         [] pc = "setup" -> per_contact * (MaxRows + 2) + 4
         [] pc = "finally" -> 3
         [] pc = "save_log" -> 2
         [] pc = "summary" -> 1
         [] pc \in {"returned", "crashed"} -> 0
         [] OTHER -> per_contact * left + within

\* Apart from C6's case the run does terminate: every step of the worker
\* but the sleep of the pause loop leaves less work, so a run that is not
\* kept in the pause loop comes to its end.
WorkerStepsLeaveLessWork ==
    [][(pc' # pc /\ pc # "idle") =>
          \/ WorkLeft' < WorkLeft
          \/ pc = "pause_sleep" /\ pc' = "pause_test"
                /\ ~state.should_stop]_vars

\* A worker whose run is not over has a next step.
WorkerNeverBlocks ==
    pc \notin {"idle", "returned", "crashed"} => ENABLED Worker

\* A run that is paused with no stop requested stays in the pause loop: as
\* long as that lasts it does not terminate.
PausedRunStaysInPauseLoop ==
    [][(pc \in {"pause_test", "pause_sleep"} /\ state.is_paused
          /\ ~state.should_stop) =>
          pc' \in {"pause_test", "pause_sleep"}]_vars

=============================================================================
